---------------------------- MODULE Spec2Model ----------------------------
(***************************************************************************)
(* A model of the 008 Copilot client (wobbat/th):                          *)
(*   - CopilotAPI.chatStream, the decoder of the streamed response         *)
(*     (src/legacy/src/auth/index.ts);                                     *)
(*   - ChatTui, the orchestrator of one user turn with its tool-call       *)
(*     accumulator and tool executor (src/legacy/008.ts);                  *)
(*   - the commands of the command line: login and chat                    *)
(*     (src/legacy/src/cli/commands.ts), the credential store Auth and     *)
(*     the REPL (src/legacy/src/auth/index.ts);                            *)
(*   - the command assistant (src/unnamed/part_000).                       *)
(* Text is modelled by TLA+ strings (read with Len, SubSeq and \o), JSON   *)
(* values by tagged records.                                               *)
(***************************************************************************)
EXTENDS Integers, Sequences, FiniteSets, TLC

VARIABLES
    \* CopilotAPI.chatStream, one run of the generator
    text,        \* the whole response body the network will deliver, in bytes
    pos,         \* how many bytes of it reader.read() has delivered
    undecoded,   \* the bytes `decoder` holds back: an unfinished character
    buffer,      \* `buffer`: the held-back partial line
    yielded,     \* the events yielded so far
    gen,         \* "reading" | "returned" | "ended" | "threw"
    \* what the run has seen (history, for the claims)
    bytewise,    \* every chunk read so far was a single byte
    heldBack     \* some read left a partial line in the buffer

streamVars == <<text, pos, undecoded, buffer, yielded, gen, bytewise, heldBack>>

VARIABLES
    \* ChatTui.mergeToolCalls, folded over one sequence of fragments twice
    frags,       \* the fragments, in arrival order
    ia,          \* how many of them the first fold has merged
    accA,        \* the first fold's `pendingToolCalls`
    recA,        \* recA[j]: the record the first fold merged fragment j into (history)
    ib,          \* how many of them the second fold has merged
    accB,        \* the second fold's `pendingToolCalls`
    plainA,      \* no event of the first fold repeated a slot index (history)
    plainB       \* no event of the second fold repeated a slot index (history)

mergeVars == <<frags, ia, accA, recA, ib, accB, plainA, plainB>>

VARIABLES
    \* ChatTui
    chatHistory,        \* `chatHistory`: the transcript
    isStreaming,        \* `isStreaming`
    notices,            \* the system messages shown (addSystemMessage)
    pc,                 \* where streamAssistantResponse is suspended:
                        \*   "idle" | "request" | "streaming" | "describing"
    safetyCounter,      \* `safetyCounter`
    accumulatedText,    \* `accumulatedText` of the pass
    pendingToolCalls,   \* `pendingToolCalls` of the pass
    events,             \* what the pass's chatStream generator has still to yield
    toolIdx,            \* resolveToolCalls: the tool call being described
    shared,             \* the places in chatHistory of the assistant messages whose
                        \*   tool_calls hold the very records of `pendingToolCalls`
    \* what has happened (history, for the claims)
    submissions,        \* handleSubmission calls so far
    turns,              \* sendToAssistant calls so far
    turnStart,          \* the place of the turn's user message in chatHistory
    requests,           \* chatStream calls of the turn
    toolPasses,         \* passes of the turn that ended with tool calls
    passContents,       \* the text fragments the pass has received, in order
    mergedArgs,         \* mergedArgs[k]: the arguments texts of the fragments the
                        \*   pass has merged into record k, in order
    outcome             \* "none" | "running" | "final" | "empty" | "abort" | "error"

tuiVars == <<chatHistory, isStreaming, notices, pc, safetyCounter, accumulatedText,
             pendingToolCalls, events, toolIdx, shared, submissions, turns,
             turnStart, requests, toolPasses, passContents, mergedArgs, outcome>>

VARIABLES
    \* login (cli/commands.ts), one run of the command
    loginPc,        \* where the run is: "start", "sleep", "poll", "exited", or
                    \* "off" when the command is not run
    deviceInfo,     \* `deviceInfo`, what authorize returned
    status,         \* `status`
    attempts,       \* `attempts`
    authFile,       \* the content of auth.json, the credential store
    fileBefore,     \* the content of auth.json when the command started
    authorizeCalls, \* calls of AuthGithubCopilot.authorize
    pollCalls,      \* calls of AuthGithubCopilot.poll
    answers,        \* the statuses poll returned, in order
    sleeps,         \* timers set by the loop
    slept,          \* milliseconds the loop has slept, in all
    raised,         \* which call raised: "none", "authorize", "poll"
    loginLog,       \* the last line login printed about its result
    exitCode        \* the code of process.exit, -1 while the process runs

loginVars == <<loginPc, deviceInfo, status, attempts, authFile, fileBefore,
               authorizeCalls, pollCalls, answers, sleeps, slept, raised, loginLog,
               exitCode>>

VARIABLES
    \* repl (auth/index.ts) and chat (cli/commands.ts), one run of either
    cliCommand,      \* which of the two runs: "repl", "chat", or "off"
    cliPc,           \* where it is: repl at "prompt", "first", "second", "closed";
                     \* chat at "first", "second", "exited"
    replHistory,     \* repl: `chatHistory`
    chatMessages,    \* chat: `messages`
    fullResponse,    \* repl: `fullResponse`
    cliToolCalls,    \* `toolCalls`, the list the tool loop runs over
    handled,         \* how many of them the tool loop got through
    cliRequests,     \* requests made for the question
    chatFailed,      \* the catch block printed 'Chat failed:' for the question
    transportFailed, \* a request of the question raised
    printed,         \* the last line printed
    cliExit,         \* chat: the exit code, -1 while it runs
    questions        \* repl: lines entered at the prompt

legacyVars == <<cliCommand, cliPc, replHistory, chatMessages, fullResponse,
                cliToolCalls, handled, cliRequests, chatFailed, transportFailed,
                printed, cliExit, questions>>

VARIABLES
    \* command-assist (unnamed/part_000), one run of main
    assistPc,        \* where main is: "start", "planning", "approval", "running",
                     \* "exited", or "off" when the script is not run
    rawQuery,        \* `rawQuery`
    assistChunks,    \* the contents chatStream has still to yield
    assistBuffer,    \* requestCommand: `buffer`
    proposal,        \* `proposal`, Null when there is none
    approvalAnswer,  \* the line the user answered the approval prompt with
    spawned,         \* the commands handed to spawn, in order
    assistLog,       \* the last line the script printed
    assistExit       \* the exit code of the script, -1 while it runs

assistVars == <<assistPc, rawQuery, assistChunks, assistBuffer, proposal,
                approvalAnswer, spawned, assistLog, assistExit>>

VARIABLES
    \* Auth, under a sequence of set and remove calls
    storeFile,       \* the content of auth.json
    storeBefore,     \* the content of auth.json before the first call
    storeLog         \* the set and remove calls made, in order

storeVars == <<storeFile, storeBefore, storeLog>>

cliVars == <<loginVars, legacyVars, assistVars, storeVars>>

vars == <<streamVars, mergeVars, tuiVars, cliVars>>

-----------------------------------------------------------------------------
(* JavaScript values, as far as the code looks at them *)

Undefined == [t |-> "undefined"]
Null == [t |-> "null"]
Str(s) == [t |-> "string", v |-> s]
Arr(a) == [t |-> "array", v |-> a]
Num(n) == [t |-> "number", v |-> n]

\* JavaScript's ToBoolean: undefined, null, "" and 0 are falsy; every array
\* (the empty one too) and every object is truthy.
Truthy(x) ==
    CASE x.t = "undefined" -> FALSE
      [] x.t = "null" -> FALSE
      [] x.t = "string" -> x.v # ""
      [] x.t = "number" -> x.v # 0
      [] OTHER -> TRUE

\* a || b
Or(a, b) == IF Truthy(a) THEN a ELSE b

-----------------------------------------------------------------------------
(* Strings *)

\* The positions of the "\n" characters of s.
Newlines(s) == {i \in 1 .. Len(s) : SubSeq(s, i, i) = "\n"}

\* The k-th smallest element of the set S of numbers.
Nth(S, k) == CHOOSE i \in S : Cardinality({j \in S : j < i}) = k - 1

\* s.split('\n'): never empty, its last element is what follows the last "\n".
Split(s) ==
    LET nl == Newlines(s)
        n == Cardinality(nl)
        from(k) == IF k = 1 THEN 1 ELSE Nth(nl, k - 1) + 1
        to(k) == IF k = n + 1 THEN Len(s) ELSE Nth(nl, k) - 1
    IN [k \in 1 .. n + 1 |-> SubSeq(s, from(k), to(k))]

\* Bytes are written as characters: an ASCII byte as its character, and the two
\* bytes 0xC3 0xA9 of the one two-byte character of the model, e-acute, as
\* Utf8Lead and Utf8Trail. In decoded text e-acute is written EAcute and the
\* replacement character U+FFFD is written Replacement.
Utf8Lead == "#"
Utf8Trail == "%"
EAcute == "@"
Replacement == "?"

\* The text of a sequence of bytes: a lead byte with its trail byte is e-acute,
\* a lead or trail byte on its own is U+FFFD.
RECURSIVE Utf8Decode(_)
Utf8Decode(bytes) ==
    LET special == {i \in 1 .. Len(bytes) : SubSeq(bytes, i, i) \in {Utf8Lead, Utf8Trail}}
    IN IF special = {} THEN bytes
       ELSE LET i == Nth(special, 1) IN
            IF /\ SubSeq(bytes, i, i) = Utf8Lead
               /\ i < Len(bytes)
               /\ SubSeq(bytes, i + 1, i + 1) = Utf8Trail
            THEN SubSeq(bytes, 1, i - 1) \o EAcute
                     \o Utf8Decode(SubSeq(bytes, i + 2, Len(bytes)))
            ELSE SubSeq(bytes, 1, i - 1) \o Replacement
                     \o Utf8Decode(SubSeq(bytes, i + 1, Len(bytes)))

\* decoder.decode(value): the chunk decoded on its own.
TextDecodeAlone(held, value) == [text |-> Utf8Decode(value), held |-> ""]

\* decoder.decode(value, { stream: true }): the held-back bytes and the chunk
\* are decoded together, but for a lead byte at the end, which is held back.
TextDecode(held, value) ==
    LET bytes == held \o value
        n == Len(bytes)
        cut == IF n > 0 /\ SubSeq(bytes, n, n) = Utf8Lead THEN n - 1 ELSE n
    IN [text |-> Utf8Decode(SubSeq(bytes, 1, cut)), held |-> SubSeq(bytes, cut + 1, n)]

\* line.startsWith(prefix)
StartsWith(line, prefix) ==
    /\ Len(line) >= Len(prefix)
    /\ SubSeq(line, 1, Len(prefix)) = prefix

\* line.slice(n)
Slice(line, n) == SubSeq(line, n + 1, Len(line))


-----------------------------------------------------------------------------
(* The wire: response bodies of the completion endpoint *)

\* One tool-call fragment of a delta, as the service writes it.
WireFragOpen ==
    "{\"index\":0,\"id\":\"c1\",\"function\":{\"name\":\"read_file\",\"arguments\":\"\"}}"
WireFragArgs ==
    "{\"index\":0,\"function\":{\"arguments\":\"{\\\"path\\\":\\\"a.txt\\\"}\"}}"
WireFragGrep ==
    "{\"index\":1,\"id\":\"c2\",\"function\":{\"name\":\"grep\",\"arguments\":\"{\"}}"
\* read_file calls that fail, and a call without id and name
WireFragUnreadable ==
    "{\"index\":0,\"id\":\"r1\",\"function\":{\"name\":\"read_file\",\"arguments\":\"{\\\"path\\\":\\\"b.txt\\\"}\"}}"
WireFragNumberPath ==
    "{\"index\":1,\"id\":\"r2\",\"function\":{\"name\":\"read_file\",\"arguments\":\"{\\\"path\\\":1}\"}}"
WireFragCutArgs ==
    "{\"index\":2,\"id\":\"r3\",\"function\":{\"name\":\"read_file\",\"arguments\":\"{\\\"path\\\":\"}}"
WireFragNullArgs ==
    "{\"index\":3,\"id\":\"r4\",\"function\":{\"name\":\"read_file\",\"arguments\":\"null\"}}"
WireFragNameless ==
    "{\"index\":4,\"function\":{\"arguments\":\"{}\"}}"
\* calls that arrive whole, in one fragment
WireFragWhole ==
    "{\"index\":0,\"id\":\"w1\",\"function\":{\"name\":\"read_file\",\"arguments\":\"{\\\"path\\\":\\\"a.txt\\\"}\"}}"
WireFragWholeNext ==
    "{\"index\":1,\"id\":\"w2\",\"function\":{\"name\":\"read_file\",\"arguments\":\"{\\\"path\\\":\\\"a.txt\\\"}\"}}"
WireFragCutFirst ==
    "{\"index\":0,\"id\":\"x1\",\"function\":{\"name\":\"read_file\",\"arguments\":\"{\\\"path\\\":\"}}"
WireFragGrepWhole ==
    "{\"index\":0,\"id\":\"g1\",\"function\":{\"name\":\"grep\",\"arguments\":\"{}\"}}"

WireDoc(delta) == "{\"choices\":[{\"delta\":" \o delta \o "}]}"
WireToolCalls(list) == "{\"tool_calls\":[" \o list \o "]}"

DocHi == WireDoc("{\"content\":\"hi\"}")
DocSpace == WireDoc("{\"content\":\" \"}")
DocEmptyContent == WireDoc("{\"content\":\"\"}")
DocRole == WireDoc("{\"role\":\"assistant\",\"content\":null}")
DocNoToolCalls == WireDoc(WireToolCalls(""))
DocOpen == WireDoc(WireToolCalls(WireFragOpen))
DocArgs == WireDoc(WireToolCalls(WireFragArgs))
DocGrep == WireDoc(WireToolCalls(WireFragGrep))
DocTwo == WireDoc(WireToolCalls(WireFragOpen \o "," \o WireFragGrep))
DocOdd ==
    WireDoc(WireToolCalls(WireFragUnreadable \o "," \o WireFragNumberPath \o ","
                          \o WireFragCutArgs \o "," \o WireFragNullArgs \o ","
                          \o WireFragNameless))
DocWhole == WireDoc(WireToolCalls(WireFragWhole))
DocCutThenWhole == WireDoc(WireToolCalls(WireFragCutFirst \o "," \o WireFragWholeNext))
DocGrepThenWhole == WireDoc(WireToolCalls(WireFragGrepWhole \o "," \o WireFragWholeNext))
\* the bytes of {"choices":[{"delta":{"content":"<e-acute>"}}]}
DocAccent == WireDoc("{\"content\":\"" \o Utf8Lead \o Utf8Trail \o "\"}")
DocNoChoices == "{}"
DocNull == "null"
\* not JSON: the document is cut short
DocCut == "{\"choices\":[{\"delta\":{\"content\":\"hi\"}"

DataLine(payload) == "data: " \o payload \o "\n"
DoneLine == "data: [DONE]\n"

-----------------------------------------------------------------------------
(* JSON.parse, on the documents of the wire *)

\* A parsed tool-call fragment: what `update.id`, `update.function?.name` and
\* `update.function?.arguments` read, and the protocol's slot `index`.
Frag(index, id, name, arguments) ==
    [index |-> index, id |-> id, name |-> name, arguments |-> arguments]

FragOpen == Frag(0, Str("c1"), Str("read_file"), Str(""))
FragArgs == Frag(0, Undefined, Undefined, Str("{\"path\":\"a.txt\"}"))
FragGrep == Frag(1, Str("c2"), Str("grep"), Str("{"))
FragUnreadable == Frag(0, Str("r1"), Str("read_file"), Str("{\"path\":\"b.txt\"}"))
FragNumberPath == Frag(1, Str("r2"), Str("read_file"), Str("{\"path\":1}"))
FragCutArgs == Frag(2, Str("r3"), Str("read_file"), Str("{\"path\":"))
FragNullArgs == Frag(3, Str("r4"), Str("read_file"), Str("null"))
FragNameless == Frag(4, Undefined, Undefined, Str("{}"))
FragWhole == Frag(0, Str("w1"), Str("read_file"), Str("{\"path\":\"a.txt\"}"))
FragWholeNext == Frag(1, Str("w2"), Str("read_file"), Str("{\"path\":\"a.txt\"}"))
FragCutFirst == Frag(0, Str("x1"), Str("read_file"), Str("{\"path\":"))
FragGrepWhole == Frag(0, Str("g1"), Str("grep"), Str("{}"))

Delta(content, tool_calls) ==
    [t |-> "object", content |-> content, tool_calls |-> tool_calls]

\* JSON.parse(data) followed by `parsed.choices?.[0]?.delta`:
\*   threw: JSON.parse raised a SyntaxError, or parsed is null and reading
\*          `.choices` of it raised a TypeError;
\*   delta: the delta object, or Undefined.
Threw == [threw |-> TRUE, delta |-> Undefined]
Parsed(delta) == [threw |-> FALSE, delta |-> delta]

JSONParseDelta(data) ==
    CASE data = DocHi -> Parsed(Delta(Str("hi"), Undefined))
      [] data = Utf8Decode(DocAccent) -> Parsed(Delta(Str(EAcute), Undefined))
      [] data = DocSpace -> Parsed(Delta(Str(" "), Undefined))
      [] data = DocEmptyContent -> Parsed(Delta(Str(""), Undefined))
      [] data = DocRole -> Parsed(Delta(Null, Undefined))
      [] data = DocNoToolCalls -> Parsed(Delta(Undefined, Arr(<<>>)))
      [] data = DocOpen -> Parsed(Delta(Undefined, Arr(<<FragOpen>>)))
      [] data = DocArgs -> Parsed(Delta(Undefined, Arr(<<FragArgs>>)))
      [] data = DocGrep -> Parsed(Delta(Undefined, Arr(<<FragGrep>>)))
      [] data = DocTwo -> Parsed(Delta(Undefined, Arr(<<FragOpen, FragGrep>>)))
      [] data = DocOdd ->
             Parsed(Delta(Undefined,
                          Arr(<<FragUnreadable, FragNumberPath, FragCutArgs,
                                FragNullArgs, FragNameless>>)))
      [] data = DocWhole -> Parsed(Delta(Undefined, Arr(<<FragWhole>>)))
      [] data = DocCutThenWhole ->
             Parsed(Delta(Undefined, Arr(<<FragCutFirst, FragWholeNext>>)))
      [] data = DocGrepThenWhole ->
             Parsed(Delta(Undefined, Arr(<<FragGrepWhole, FragWholeNext>>)))
      [] data = DocNoChoices -> Parsed(Undefined)
      [] data = DocNull -> Threw
      [] OTHER -> Threw

-----------------------------------------------------------------------------
(* CopilotAPI.chatStream *)

\* The event of one delta: { content: delta.content, tool_calls: delta.tool_calls }
Event(delta) == [content |-> delta.content, tool_calls |-> delta.tool_calls]

\* if (delta && (delta.content || delta.tool_calls))
DeltaYields(delta) ==
    /\ Truthy(delta)
    /\ Truthy(Or(delta.content, delta.tool_calls))

\* PayloadEvents without its try/catch: what the payload raises leaves the block.
PayloadEventsNoCatch(data) ==
    LET r == JSONParseDelta(data) IN
    IF r.threw THEN [events |-> <<>>, raised |-> TRUE]
    ELSE IF DeltaYields(r.delta) THEN [events |-> <<Event(r.delta)>>, raised |-> FALSE]
    ELSE [events |-> <<>>, raised |-> FALSE]

\* The try/catch around one payload: the events it yields, and whether an
\* exception leaves the block. What JSON.parse or the reading of the delta
\* raises is caught, and the payload then yields nothing.
PayloadEvents(data) ==
    LET r == JSONParseDelta(data) IN
    IF r.threw THEN [events |-> <<>>, raised |-> FALSE]
    ELSE IF DeltaYields(r.delta) THEN [events |-> <<Event(r.delta)>>, raised |-> FALSE]
    ELSE [events |-> <<>>, raised |-> FALSE]

\* ProcessLines that skips the "[DONE]" line like any other line it cannot use.
RECURSIVE ProcessLinesPastDone(_, _, _)
ProcessLinesPastDone(lines, i, out) ==
    IF i > Len(lines) THEN [yielded |-> out, returned |-> FALSE, raised |-> FALSE]
    ELSE IF StartsWith(lines[i], "data: ")
    THEN LET r == PayloadEvents(Slice(lines[i], 6)) IN
         IF r.raised
         THEN [yielded |-> out \o r.events, returned |-> FALSE, raised |-> TRUE]
         ELSE ProcessLinesPastDone(lines, i + 1, out \o r.events)
    ELSE ProcessLinesPastDone(lines, i + 1, out)

\* The body of `for (const line of lines)` for the lines from i on: the events
\* yielded, whether the generator returned at "[DONE]", whether it raised.
RECURSIVE ProcessLines(_, _, _)
ProcessLines(lines, i, out) ==
    IF i > Len(lines) THEN [yielded |-> out, returned |-> FALSE, raised |-> FALSE]
    ELSE IF StartsWith(lines[i], "data: ")
    THEN LET data == Slice(lines[i], 6) IN
         IF data = "[DONE]"
         THEN [yielded |-> out, returned |-> TRUE, raised |-> FALSE]
         ELSE LET r == PayloadEvents(data) IN
              IF r.raised
              THEN [yielded |-> out \o r.events, returned |-> FALSE, raised |-> TRUE]
              ELSE ProcessLines(lines, i + 1, out \o r.events)
    ELSE ProcessLines(lines, i + 1, out)

\* ReadValue that holds nothing back: what follows the last "\n" is processed as
\* a line of its own.
ReadValueNoHoldBack(held, buf, out, value) ==
    LET d == TextDecode(held, value)
        r == ProcessLines(Split(buf \o d.text), 1, out)
    IN [undecoded |-> d.held,
        buffer |-> "",
        yielded |-> r.yielded,
        gen |-> IF r.raised THEN "threw"
                ELSE IF r.returned THEN "returned"
                ELSE "reading"]

\* One round of `while (true)` with a chunk `value` read: the chunk is decoded,
\* the buffer grows, its complete lines are processed, the last (partial) one is
\* held back.
ReadValue(held, buf, out, value) ==
    LET d == TextDecode(held, value)
        all == Split(buf \o d.text)
        lines == SubSeq(all, 1, Len(all) - 1)
        r == ProcessLines(lines, 1, out)
    IN [undecoded |-> d.held,
        buffer |-> all[Len(all)],
        yielded |-> r.yielded,
        gen |-> IF r.raised THEN "threw"
                ELSE IF r.returned THEN "returned"
                ELSE "reading"]

\* ReadDone that flushes: the held-back text is processed as a last line.
ReadDoneFlush(held, buf, out) ==
    LET r == ProcessLines(<<buf>>, 1, out)
    IN [undecoded |-> held, buffer |-> "", yielded |-> r.yielded, gen |-> "ended"]

\* `if (done) break`: the generator ends, whatever the buffer holds.
ReadDone(held, buf, out) ==
    [undecoded |-> held, buffer |-> buf, yielded |-> out, gen |-> "ended"]

\* The generator run over a response delivered as the chunks from i on, then
\* the end of the body.
RECURSIVE RunChunks(_, _, _)
RunChunks(st, chunks, i) ==
    IF st.gen # "reading" THEN st
    ELSE IF i > Len(chunks) THEN ReadDone(st.undecoded, st.buffer, st.yielded)
    ELSE RunChunks(ReadValue(st.undecoded, st.buffer, st.yielded, chunks[i]),
                   chunks, i + 1)

\* The state of chatStream when the loop is entered (lines 179-180).
StreamStart == [undecoded |-> "", buffer |-> "", yielded |-> <<>>, gen |-> "reading"]

ChatStream(chunks) == RunChunks(StreamStart, chunks, 1)

-----------------------------------------------------------------------------
(* ChatTui.mergeToolCalls *)

\* A ToolCall record.
ToolCall(id, name, arguments) ==
    [id |-> id, type |-> "function", function |-> [name |-> name, arguments |-> arguments]]

\* `merged[index]`: the record an update is merged into is the one at the
\* update's position p in the event's list (index = p - 1), whatever slot index
\* the fragment carries.
TargetRecord(update, p) == p

\* MergeUpdate that takes the id and the name of every update that has one, the
\* empty ones too (`??` in place of `||`).
MergeUpdateOverwrites(merged, update, p) ==
    LET k == TargetRecord(update, p)
        current ==
            IF k <= Len(merged) THEN merged[k]
            ELSE ToolCall(Or(update.id, Str("tool-" \o ToString(k - 1))).v, "", "")
        next ==
            ToolCall(IF update.id.t = "string" THEN update.id.v ELSE current.id,
                     IF update.name.t = "string" THEN update.name.v
                     ELSE current.function.name,
                     current.function.arguments \o Or(update.arguments, Str("")).v)
    IN IF k <= Len(merged) THEN [merged EXCEPT ![k] = next]
       ELSE Append(merged, next)

\* MergeUpdate that gives a new record the id of its update, and no id when the
\* update has none.
MergeUpdateNoPlaceholder(merged, update, p) ==
    LET k == TargetRecord(update, p)
        current ==
            IF k <= Len(merged) THEN merged[k]
            ELSE ToolCall(Or(update.id, Str("")).v, "", "")
        next ==
            ToolCall(Or(update.id, Str(current.id)).v,
                     Or(update.name, Str(current.function.name)).v,
                     current.function.arguments \o Or(update.arguments, Str("")).v)
    IN IF k <= Len(merged) THEN [merged EXCEPT ![k] = next]
       ELSE Append(merged, next)

\* The body of updates.forEach for the update at position p.
MergeUpdate(merged, update, p) ==
    LET k == TargetRecord(update, p)
        current ==
            IF k <= Len(merged) THEN merged[k]
            ELSE ToolCall(Or(update.id, Str("tool-" \o ToString(k - 1))).v, "", "")
        next ==
            ToolCall(Or(update.id, Str(current.id)).v,
                     Or(update.name, Str(current.function.name)).v,
                     current.function.arguments \o Or(update.arguments, Str("")).v)
    IN IF k <= Len(merged) THEN [merged EXCEPT ![k] = next]
       ELSE Append(merged, next)

RECURSIVE MergeFrom(_, _, _)
MergeFrom(merged, updates, p) ==
    IF p > Len(updates) THEN merged
    ELSE MergeFrom(MergeUpdate(merged, updates[p], p), updates, p + 1)

mergeToolCalls(existing, updates) == MergeFrom(existing, updates, 1)

-----------------------------------------------------------------------------
(* ChatTui: the tool executor *)

Whitespace == {" ", "\n", "\t", "\r"}

\* The positions of the characters of s that are not whitespace.
Inked(s) == {i \in 1 .. Len(s) : SubSeq(s, i, i) \notin Whitespace}

\* s.trimEnd()
TrimEnd(s) ==
    LET ink == Inked(s) IN
    IF ink = {} THEN "" ELSE SubSeq(s, 1, Nth(ink, Cardinality(ink)))

\* s.trim()
Trim(s) ==
    LET ink == Inked(s) IN
    IF ink = {} THEN "" ELSE SubSeq(s, Nth(ink, 1), Nth(ink, Cardinality(ink)))

\* The files readFileSync finds.
Files == [path \in {"a.txt"} |-> "hello"]

\* JSON.parse of an arguments text: whether it raised, whether it gave an
\* object (`parsed && typeof parsed === 'object'`), and the object's `path`.
JSONParseArguments(raw) ==
    CASE raw = "{\"path\":\"a.txt\"}" ->
             [threw |-> FALSE, object |-> TRUE, path |-> Str("a.txt")]
      [] raw = "{}" -> [threw |-> FALSE, object |-> TRUE, path |-> Undefined]
      [] raw = "{\"path\":\"b.txt\"}" ->
             [threw |-> FALSE, object |-> TRUE, path |-> Str("b.txt")]
      [] raw = "{\"path\":1}" -> [threw |-> FALSE, object |-> TRUE, path |-> Num(1)]
      [] raw = "null" -> [threw |-> FALSE, object |-> FALSE, path |-> Undefined]
      [] OTHER -> [threw |-> TRUE, object |-> FALSE, path |-> Undefined]

\* parseToolArguments that falls back on the arguments of the last good call.
parseToolArgumentsGuesses(toolCall) ==
    LET raw == IF toolCall.function.arguments # "" THEN toolCall.function.arguments
               ELSE "{}"
        r == JSONParseArguments(raw)
    IN IF ~r.threw /\ r.object THEN [path |-> r.path] ELSE [path |-> Str("a.txt")]

\* parseToolArguments: the arguments object, known by its `path`; {} when the
\* text does not parse to an object.
parseToolArguments(toolCall) ==
    LET raw == IF toolCall.function.arguments # "" THEN toolCall.function.arguments
               ELSE "{}"
        r == JSONParseArguments(raw)
    IN IF ~r.threw /\ r.object THEN [path |-> r.path] ELSE [path |-> Undefined]

\* handleReadFile that gives an empty result when the read fails.
handleReadFileSilent(toolCall, args) ==
    IF ~Truthy(args.path) \/ args.path.t # "string" THEN ""
    ELSE IF args.path.v \in DOMAIN Files THEN Files[args.path.v]
    ELSE ""

\* handleReadFile: the file's content, or the text of what was raised.
handleReadFile(toolCall, args) ==
    IF ~Truthy(args.path) \/ args.path.t # "string"
    THEN "Error reading file: read_file requires a valid path argument"
    ELSE IF args.path.v \in DOMAIN Files THEN Files[args.path.v]
    ELSE "Error reading file: ENOENT: no such file or directory, open '"
             \o args.path.v \o "'"

\* FunctionMessage that hands every tool call to the read_file handler.
FunctionMessageReadsAnyway(toolCall) ==
    LET toolName == toolCall.function.name
        args == parseToolArguments(toolCall)
    IN [role |-> "function", name |-> toolName,
        content |-> handleReadFile(toolCall, args), tool_call_id |-> toolCall.id]

\* resolveToolCalls, lines 530-545: the function message of one tool call.
FunctionMessage(toolCall) ==
    LET toolName == toolCall.function.name
        args == parseToolArguments(toolCall)
        toolResponse ==
            IF toolName = "read_file" THEN handleReadFile(toolCall, args)
            ELSE "Tool " \o toolName \o " is not implemented in the TUI."
    IN [role |-> "function", name |-> toolName, content |-> toolResponse,
        tool_call_id |-> toolCall.id]

-----------------------------------------------------------------------------
(* ChatTui: the orchestrator of a turn *)

\* `maxToolPasses`
maxToolPasses == 4

\* How many handleSubmission calls a behaviour holds, and how long the
\* transcript may be at the start of a turn for the service to answer the
\* turn's requests: the requests of a turn that starts later fail.
MaxSubmissions == 3
MaxHistory == 3

WelcomeNotice == "Welcome to 008. Minimal terminal, maximal focus."
HoldOnNotice == "Hold on - response is still streaming."
ClearedNotice == "Conversation cleared."
DepthLimitNotice == "Reached tool-call depth limit - aborting conversation state."

\* What the user submits: blank input, a chat message, a command.
Submissions == {"  ", " what's in a.txt ", "/clear"}

\* The response bodies the service streams, and what a failed request raises.
RespFinal == DataLine(DocHi) \o DataLine(DocSpace) \o DoneLine
RespBlank == DataLine(DocSpace) \o DataLine(DocEmptyContent) \o DoneLine
RespReadFile == DataLine(DocOpen) \o DataLine(DocArgs) \o DoneLine
RespTwoTools ==
    DataLine(DocHi) \o DataLine(DocTwo) \o DataLine(DocNoToolCalls) \o DoneLine
RespOddTools == DataLine(DocOdd) \o DoneLine
Responses == {RespFinal, RespBlank, RespReadFile, RespTwoTools, RespOddTools}
TransportErrors == {"No valid Copilot token. Please run login first."}
\* What a read of the body raises when the connection is lost.
StreamErrors == {"The socket connection was closed unexpectedly."}

UserMessage(value) == [role |-> "user", content |-> value]
AssistantMessage(content) == [role |-> "assistant", content |-> content]
AssistantToolCalls(content, toolCalls) ==
    [role |-> "assistant", content |-> content, tool_calls |-> toolCalls]

\* The loop guard off by one.
LoopContinuesInclusive(counter) == counter <= maxToolPasses

\* `while (safetyCounter < maxToolPasses)`
LoopContinues(counter) == counter < maxToolPasses

\* The counter that is never raised.
NextCounterStuck(counter) == counter

\* `safetyCounter += 1`
NextCounter(counter) == counter + 1

\* The final text left untrimmed.
FinalTextUntrimmed(accumulated) == accumulated

\* `const finalText = accumulatedText.trimEnd()`
FinalText(accumulated) == TrimEnd(accumulated)

\* A pass that keeps what the pass before it accumulated.
PassStartKeeps(prevText, prevCalls, aliased) ==
    [text |-> prevText, toolCalls |-> prevCalls, shared |-> aliased]

\* A pass that keeps the text of the pass before it.
PassStartKeepsText(prevText, prevCalls, aliased) ==
    [text |-> prevText, toolCalls |-> <<>>, shared |-> {}]

\* `let accumulatedText = ''` and `let pendingToolCalls: ToolCall[] = []`: a pass
\* starts with no text and a new, empty list, which shares no record with the
\* transcript.
PassStart(prevText, prevCalls, aliased) ==
    [text |-> "", toolCalls |-> <<>>, shared |-> {}]

\* resolveToolCalls that returns once the first tool call is resolved.
AllResolvedEarly(idx, toolCalls) == idx >= 1

\* `for (const toolCall of toolCalls)` is over.
AllResolved(idx, toolCalls) == idx = Len(toolCalls)

\* A turn that goes on counting where the turn before it stopped.
TurnStartCounterStale(previous) == previous

\* `let safetyCounter = 0`: every call of streamAssistantResponse counts its
\* passes from 0.
TurnStartCounter(previous) == 0

\* The top of the while loop, reached with the counter at `counter` after `made`
\* chatStream calls: a new pass starts and calls chatStream, or the loop is left,
\* the depth-limit notice is shown and sendToAssistant's finally block lowers
\* isStreaming.
LoopTop(counter, made) ==
    IF LoopContinues(counter)
    THEN /\ safetyCounter' = NextCounter(counter)
         /\ LET start == PassStart(accumulatedText, pendingToolCalls, shared) IN
              /\ accumulatedText' = start.text
              /\ pendingToolCalls' = start.toolCalls
              /\ shared' = start.shared
         /\ passContents' = <<>>
         /\ mergedArgs' = <<>>
         /\ pc' = "request"
         /\ requests' = made + 1
         /\ notices' = notices
         /\ isStreaming' = TRUE
         /\ outcome' = "running"
    ELSE /\ safetyCounter' = counter
         /\ UNCHANGED <<accumulatedText, pendingToolCalls, shared, passContents,
                        mergedArgs>>
         /\ pc' = "idle"
         /\ requests' = made
         /\ notices' = Append(notices, DepthLimitNotice)
         /\ isStreaming' = FALSE
         /\ outcome' = "abort"

\* sendToAssistant returns or catches: the finally block lowers isStreaming.
TurnEnds(result) ==
    /\ pc' = "idle"
    /\ isStreaming' = FALSE
    /\ outcome' = result

\* handleSubmission with blank input: `if (!value)`, only the status line changes.
SubmitBlank(rawValue) ==
    /\ Trim(rawValue) = ""
    /\ UNCHANGED <<chatHistory, isStreaming, notices, pc, safetyCounter,
                   accumulatedText, pendingToolCalls, events, toolIdx, shared, turns,
                   turnStart, requests, toolPasses, passContents, mergedArgs,
                   outcome>>

\* handleSubmission while a turn is in flight: `if (this.isStreaming)`.
SubmitWhileStreaming(rawValue) ==
    /\ Trim(rawValue) # ""
    /\ isStreaming
    /\ notices' = Append(notices, HoldOnNotice)
    /\ UNCHANGED <<chatHistory, isStreaming, pc, safetyCounter, accumulatedText,
                   pendingToolCalls, events, toolIdx, shared, turns, turnStart,
                   requests, toolPasses, passContents, mergedArgs, outcome>>

\* A "/clear" that is dispatched before the isStreaming check.
SubmitClearAnytime(rawValue) ==
    /\ Trim(rawValue) = "/clear"
    /\ chatHistory' = <<>>
    /\ notices' = <<ClearedNotice>>
    /\ shared' = {}
    /\ turnStart' = 0
    /\ outcome' = "none"
    /\ UNCHANGED <<isStreaming, pc, safetyCounter, accumulatedText, pendingToolCalls,
                   events, toolIdx, turns, requests, toolPasses, passContents,
                   mergedArgs>>

\* handleSubmission of "/clear": handleCommand runs commands.clear, which empties
\* the shown messages and the transcript and then shows its notice.
SubmitClear(rawValue) ==
    /\ Trim(rawValue) = "/clear"
    /\ ~isStreaming
    /\ chatHistory' = <<>>
    /\ notices' = <<ClearedNotice>>
    /\ shared' = {}
    /\ turnStart' = 0
    /\ outcome' = "none"
    /\ UNCHANGED <<isStreaming, pc, safetyCounter, accumulatedText, pendingToolCalls,
                   events, toolIdx, turns, requests, toolPasses, passContents,
                   mergedArgs>>

\* handleSubmission of a chat message: sendToAssistant appends the user message,
\* raises isStreaming and enters streamAssistantResponse, which runs to the
\* first chatStream call.
SubmitChat(rawValue) ==
    /\ Trim(rawValue) # ""
    /\ ~StartsWith(Trim(rawValue), "/")
    /\ ~isStreaming
    /\ turns' = turns + 1
    /\ chatHistory' = Append(chatHistory, UserMessage(Trim(rawValue)))
    /\ turnStart' = Len(chatHistory) + 1
    /\ toolPasses' = 0
    /\ LoopTop(TurnStartCounter(safetyCounter), 0)
    /\ UNCHANGED <<events, toolIdx>>

HandleSubmission ==
    /\ submissions < MaxSubmissions
    /\ submissions' = submissions + 1
    /\ \E rawValue \in Submissions :
         \/ SubmitBlank(rawValue)
         \/ SubmitWhileStreaming(rawValue)
         \/ SubmitClear(rawValue)
         \/ SubmitChat(rawValue)
    /\ UNCHANGED <<streamVars, mergeVars, cliVars>>

\* RequestFails that shows the error and asks again.
RequestFailsAndRetries ==
    /\ pc = "request"
    /\ requests < maxToolPasses
    /\ \E message \in TransportErrors :
         notices' = Append(notices, "Error: " \o message)
    /\ requests' = requests + 1
    /\ UNCHANGED <<chatHistory, isStreaming, pc, safetyCounter, accumulatedText,
                   pendingToolCalls, events, toolIdx, shared, submissions, turns,
                   turnStart, toolPasses, passContents, mergedArgs, outcome>>
    /\ UNCHANGED <<streamVars, mergeVars, cliVars>>

\* chatStream raises before it reads (no token, fetch failure, status not ok,
\* no body): sendToAssistant catches, shows the error once and ends the turn.
RequestFails ==
    /\ pc = "request"
    /\ \E message \in TransportErrors :
         notices' = Append(notices, "Error: " \o message)
    /\ TurnEnds("error")
    /\ UNCHANGED <<chatHistory, safetyCounter, accumulatedText, pendingToolCalls,
                   events, toolIdx, shared, submissions, turns, turnStart, requests,
                   toolPasses, passContents, mergedArgs>>
    /\ UNCHANGED <<streamVars, mergeVars, cliVars>>

\* StreamBreaks of a pass that records its tool calls as they arrive: the
\* abandoned pass leaves its assistant message in the transcript.
StreamBreaksAfterRecording ==
    /\ pc = "streaming"
    /\ events # <<>>
    /\ \E message \in StreamErrors :
         notices' = Append(notices, "Error: " \o message)
    /\ events' = <<>>
    /\ chatHistory' =
           IF pendingToolCalls = <<>> THEN chatHistory
           ELSE Append(chatHistory, AssistantToolCalls(accumulatedText, pendingToolCalls))
    /\ TurnEnds("error")
    /\ UNCHANGED <<safetyCounter, accumulatedText, pendingToolCalls,
                   toolIdx, shared, submissions, turns, turnStart, requests,
                   toolPasses, passContents, mergedArgs>>
    /\ UNCHANGED <<streamVars, mergeVars, cliVars>>

\* reader.read() rejects while the body is being read: the generator raises in
\* place of its next event, the pass is abandoned with what it has accumulated,
\* and sendToAssistant catches, shows the error and ends the turn.
StreamBreaks ==
    /\ pc = "streaming"
    /\ events # <<>>
    /\ \E message \in StreamErrors :
         notices' = Append(notices, "Error: " \o message)
    /\ events' = <<>>
    /\ TurnEnds("error")
    /\ UNCHANGED <<chatHistory, safetyCounter, accumulatedText, pendingToolCalls,
                   toolIdx, shared, submissions, turns, turnStart, requests,
                   toolPasses, passContents, mergedArgs>>
    /\ UNCHANGED <<streamVars, mergeVars, cliVars>>

\* mergeToolCalls copies the list but not its records (`[...existing]`) and
\* writes into the records: an assistant message whose tool_calls hold these
\* records shows what the merge wrote. Its list keeps its length.
MutatedHistory(history, aliased, merged) ==
    [h \in DOMAIN history |->
        IF h \in aliased
        THEN [history[h] EXCEPT !.tool_calls = SubSeq(merged, 1, Len(@))]
        ELSE history[h]]

\* The arguments texts received per record, after an event's fragments: the
\* fragment at position p of the list is one more of record p.
ArgsReceived(received, updates) ==
    [k \in 1 .. (IF Len(updates) > Len(received) THEN Len(updates) ELSE Len(received)) |->
        (IF k <= Len(received) THEN received[k] ELSE <<>>)
        \o (IF k <= Len(updates)
            THEN <<Or(updates[k].arguments, Str("")).v>>
            ELSE <<>>)]

\* The response arrives: the generator decodes its body.
StreamOpens ==
    /\ pc = "request"
    /\ turnStart <= MaxHistory
    /\ \E body \in Responses : events' = ChatStream(<<body>>).yielded
    /\ pc' = "streaming"
    /\ UNCHANGED <<chatHistory, isStreaming, notices, safetyCounter, accumulatedText,
                   pendingToolCalls, toolIdx, shared, submissions, turns, turnStart,
                   requests, toolPasses, passContents, mergedArgs, outcome>>
    /\ UNCHANGED <<streamVars, mergeVars, cliVars>>

\* The body of `for await (const chunk of ...)` for the next event.
ConsumeEvent ==
    /\ pc = "streaming"
    /\ events # <<>>
    /\ LET chunk == Head(events) IN
         /\ IF Truthy(chunk.tool_calls) /\ Len(chunk.tool_calls.v) > 0
            THEN /\ pendingToolCalls' =
                        mergeToolCalls(pendingToolCalls, chunk.tool_calls.v)
                 /\ chatHistory' = MutatedHistory(chatHistory, shared, pendingToolCalls')
                 /\ mergedArgs' = ArgsReceived(mergedArgs, chunk.tool_calls.v)
            ELSE UNCHANGED <<pendingToolCalls, chatHistory, mergedArgs>>
         /\ IF Truthy(chunk.content)
            THEN /\ accumulatedText' = accumulatedText \o chunk.content.v
                 /\ passContents' = Append(passContents, chunk.content.v)
            ELSE UNCHANGED <<accumulatedText, passContents>>
    /\ events' = Tail(events)
    /\ UNCHANGED <<isStreaming, notices, pc, safetyCounter, toolIdx, shared,
                   submissions, turns, turnStart, requests, toolPasses, outcome>>
    /\ UNCHANGED <<streamVars, mergeVars, cliVars>>

\* The generator is done and the pass has no tool call (lines 464-480): the
\* trimmed text, unless it is empty, becomes the final assistant message.
PassEndsWithText ==
    /\ pc = "streaming"
    /\ events = <<>>
    /\ Len(pendingToolCalls) = 0
    /\ LET finalText == FinalText(accumulatedText) IN
         IF Len(finalText) = 0
         THEN /\ UNCHANGED chatHistory
              /\ TurnEnds("empty")
         ELSE /\ chatHistory' = Append(chatHistory, AssistantMessage(finalText))
              /\ TurnEnds("final")
    /\ UNCHANGED <<notices, safetyCounter, accumulatedText, pendingToolCalls, events,
                   toolIdx, shared, submissions, turns, turnStart, requests,
                   toolPasses, passContents, mergedArgs>>
    /\ UNCHANGED <<streamVars, mergeVars, cliVars>>

\* The generator is done and the pass has tool calls (lines 482-489): the
\* assistant message is appended, resolveToolCalls appends the function message
\* of the first tool call and awaits describeToolResult.
PassEndsWithToolCalls ==
    /\ pc = "streaming"
    /\ events = <<>>
    /\ Len(pendingToolCalls) > 0
    /\ chatHistory' = chatHistory
           \o <<AssistantToolCalls(accumulatedText, pendingToolCalls),
                FunctionMessage(pendingToolCalls[1])>>
    /\ shared' = shared \cup {Len(chatHistory) + 1}
    /\ toolIdx' = 1
    /\ toolPasses' = toolPasses + 1
    /\ pc' = "describing"
    /\ UNCHANGED <<isStreaming, notices, safetyCounter, accumulatedText,
                   pendingToolCalls, events, submissions, turns, turnStart,
                   requests, passContents, mergedArgs, outcome>>
    /\ UNCHANGED <<streamVars, mergeVars, cliVars>>

\* describeToolResult is done and tool calls remain: the function message of the
\* next one is appended.
NextToolCall ==
    /\ pc = "describing"
    /\ ~AllResolved(toolIdx, pendingToolCalls)
    /\ toolIdx < Len(pendingToolCalls)
    /\ chatHistory' = Append(chatHistory, FunctionMessage(pendingToolCalls[toolIdx + 1]))
    /\ toolIdx' = toolIdx + 1
    /\ UNCHANGED <<isStreaming, notices, pc, safetyCounter, accumulatedText,
                   pendingToolCalls, events, shared, submissions, turns, turnStart,
                   requests, toolPasses, passContents, mergedArgs, outcome>>
    /\ UNCHANGED <<streamVars, mergeVars, cliVars>>

\* describeToolResult of the last tool call is done: resolveToolCalls returns and
\* the while loop comes round.
ToolCallsResolved ==
    /\ pc = "describing"
    /\ AllResolved(toolIdx, pendingToolCalls)
    /\ LoopTop(safetyCounter, requests)
    /\ UNCHANGED <<chatHistory, events, toolIdx, submissions, turns, turnStart,
                   toolPasses>>
    /\ UNCHANGED <<streamVars, mergeVars, cliVars>>

\* What the turn in flight does next.
TurnStep ==
    \/ RequestFails
    \/ StreamOpens
    \/ StreamBreaks
    \/ ConsumeEvent
    \/ PassEndsWithText
    \/ PassEndsWithToolCalls
    \/ NextToolCall
    \/ ToolCallsResolved

-----------------------------------------------------------------------------
(* States of the parts a specification leaves alone *)

StreamIdle ==
    /\ text = ""
    /\ pos = 0
    /\ undecoded = ""
    /\ buffer = ""
    /\ yielded = <<>>
    /\ gen = "ended"
    /\ bytewise = TRUE
    /\ heldBack = FALSE

MergeIdle ==
    /\ frags = <<>>
    /\ ia = 0
    /\ accA = <<>>
    /\ recA = <<>>
    /\ ib = 0
    /\ accB = <<>>
    /\ plainA = TRUE
    /\ plainB = TRUE

\* The login command is not run; auth.json is absent.
LoginIdle ==
    /\ loginPc = "off"
    /\ deviceInfo = Undefined
    /\ status = ""
    /\ attempts = 0
    /\ authFile = <<>>
    /\ fileBefore = <<>>
    /\ authorizeCalls = 0
    /\ pollCalls = 0
    /\ answers = <<>>
    /\ sleeps = 0
    /\ slept = 0
    /\ raised = "none"
    /\ loginLog = ""
    /\ exitCode = -1

\* Neither repl nor chat is run.
LegacyIdle ==
    /\ cliCommand = "off"
    /\ cliPc = "off"
    /\ replHistory = <<>>
    /\ chatMessages = <<>>
    /\ fullResponse = ""
    /\ cliToolCalls = <<>>
    /\ handled = 0
    /\ cliRequests = 0
    /\ chatFailed = FALSE
    /\ transportFailed = FALSE
    /\ printed = ""
    /\ cliExit = -1
    /\ questions = 0

\* The command assistant is not run.
AssistIdle ==
    /\ assistPc = "off"
    /\ rawQuery = ""
    /\ assistChunks = <<>>
    /\ assistBuffer = ""
    /\ proposal = Null
    /\ approvalAnswer = ""
    /\ spawned = <<>>
    /\ assistLog = ""
    /\ assistExit = -1

\* No set or remove call is made.
StoreIdle ==
    /\ storeFile = <<>>
    /\ storeBefore = <<>>
    /\ storeLog = <<>>

CliIdle == LoginIdle /\ LegacyIdle /\ AssistIdle /\ StoreIdle

\* ChatTui as its constructor leaves it.
TuiInit ==
    /\ chatHistory = <<>>
    /\ isStreaming = FALSE
    /\ notices = <<WelcomeNotice>>
    /\ pc = "idle"
    /\ safetyCounter = 0
    /\ accumulatedText = ""
    /\ pendingToolCalls = <<>>
    /\ events = <<>>
    /\ toolIdx = 0
    /\ shared = {}
    /\ submissions = 0
    /\ turns = 0
    /\ turnStart = 0
    /\ requests = 0
    /\ toolPasses = 0
    /\ passContents = <<>>
    /\ mergedArgs = <<>>
    /\ outcome = "none"

-----------------------------------------------------------------------------
(* ChatTui: the specification *)

Init == TuiInit /\ StreamIdle /\ MergeIdle /\ CliIdle

Next == HandleSubmission \/ TurnStep

Spec == Init /\ [][Next]_vars

\* Once a continuation of the turn can run, the event loop runs it, and every
\* request is answered or fails.
FairSpec == Spec /\ WF_vars(TurnStep)

-----------------------------------------------------------------------------
(* The decoder on its own: one response, delivered in chunks of any size *)

StreamTexts ==
    { DataLine(DocHi) \o DataLine(DocCut) \o DataLine(DocSpace) \o DoneLine
          \o DataLine(DocHi),
      ": keep-alive\n" \o DataLine(DocSpace) \o "\n" \o DataLine(DocHi)
          \o "data: " \o DocHi,
      DataLine(DocEmptyContent) \o DataLine(DocRole) \o DataLine(DocNoToolCalls)
          \o DataLine(DocNull) \o DataLine(DocNoChoices) \o DoneLine,
      DataLine(DocAccent) \o "data: [DONE]",
      DataLine(DocGrep) \o DoneLine \o "data: " \o DocHi }

StreamInit ==
    /\ text \in StreamTexts
    /\ pos = 0
    /\ undecoded = StreamStart.undecoded
    /\ buffer = StreamStart.buffer
    /\ yielded = StreamStart.yielded
    /\ gen = StreamStart.gen
    /\ bytewise = TRUE
    /\ heldBack = FALSE
    /\ MergeIdle
    /\ TuiInit
    /\ CliIdle

\* reader.read() resolves with the next n bytes of the body.
ReadChunk ==
    /\ gen = "reading"
    /\ \E n \in 1 .. (Len(text) - pos) :
         LET st == ReadValue(undecoded, buffer, yielded,
                             SubSeq(text, pos + 1, pos + n)) IN
         /\ pos' = pos + n
         /\ undecoded' = st.undecoded
         /\ buffer' = st.buffer
         /\ yielded' = st.yielded
         /\ gen' = st.gen
         /\ bytewise' = (bytewise /\ n = 1)
         /\ heldBack' = (heldBack \/ st.buffer # "")
    /\ UNCHANGED text
    /\ UNCHANGED <<mergeVars, tuiVars, cliVars>>

\* reader.read() resolves with done: the body is exhausted.
ReadEnd ==
    /\ gen = "reading"
    /\ pos = Len(text)
    /\ LET st == ReadDone(undecoded, buffer, yielded) IN
         /\ undecoded' = st.undecoded
         /\ buffer' = st.buffer
         /\ yielded' = st.yielded
         /\ gen' = st.gen
    /\ UNCHANGED <<text, pos, bytewise, heldBack>>
    /\ UNCHANGED <<mergeVars, tuiVars, cliVars>>

StreamNext == ReadChunk \/ ReadEnd

SpecStream == StreamInit /\ [][StreamNext]_vars

-----------------------------------------------------------------------------
(* mergeToolCalls on its own: one sequence of fragments, folded twice, each
   fold grouping the fragments into per-event lists in its own way *)

\* How many fragments the sequence holds at most.
MaxFrags == 3

FragBrace == Frag(1, Undefined, Undefined, Str("}"))
\* a fragment with an empty id, an empty name and no arguments
FragBlank == Frag(1, Str(""), Str(""), Undefined)
FragPool == {FragOpen, FragArgs, FragGrep, FragBrace, FragBlank}

\* An event's list as the protocol writes it: no slot index twice.
PlainEvent(updates) ==
    \A p, q \in 1 .. Len(updates) :
        p # q => updates[p].index # updates[q].index

MergeInit ==
    /\ frags \in UNION {[1 .. n -> FragPool] : n \in 1 .. MaxFrags}
    /\ ia = 0
    /\ accA = <<>>
    /\ recA = <<>>
    /\ ib = 0
    /\ accB = <<>>
    /\ plainA = TRUE
    /\ plainB = TRUE
    /\ StreamIdle
    /\ TuiInit
    /\ CliIdle

\* The first fold merges an event carrying the next n fragments.
FeedA ==
    /\ \E n \in 1 .. (Len(frags) - ia) :
         LET updates == SubSeq(frags, ia + 1, ia + n) IN
         /\ accA' = mergeToolCalls(accA, updates)
         /\ recA' = recA \o [p \in 1 .. n |-> TargetRecord(updates[p], p)]
         /\ ia' = ia + n
         /\ plainA' = (plainA /\ PlainEvent(updates))
    /\ UNCHANGED <<frags, ib, accB, plainB>>
    /\ UNCHANGED <<streamVars, tuiVars, cliVars>>

\* The second fold merges an event carrying the next n fragments.
FeedB ==
    /\ \E n \in 1 .. (Len(frags) - ib) :
         LET updates == SubSeq(frags, ib + 1, ib + n) IN
         /\ accB' = mergeToolCalls(accB, updates)
         /\ ib' = ib + n
         /\ plainB' = (plainB /\ PlainEvent(updates))
    /\ UNCHANGED <<frags, ia, accA, recA, plainA>>
    /\ UNCHANGED <<streamVars, tuiVars, cliVars>>

MergeNext == FeedA \/ FeedB

SpecMerge == MergeInit /\ [][MergeNext]_vars

-----------------------------------------------------------------------------
(* Auth, the credential store: auth.json read as a map from provider to
   credential *)

\* The provider login signs in to.
Provider == "github-copilot"

\* A credential stored by an earlier login, and the one a completed
\* authorization yields.
OldCredential == [type |-> "oauth", refresh |-> "r0", access |-> "a0", expires |-> 0]
NewCredential == [type |-> "oauth", refresh |-> "r1", access |-> "", expires |-> 0]

\* auth.json as written: a sequence of <<provider, credential>> entries, one per
\* provider.
HasKey(file, key) == \E i \in 1 .. Len(file) : file[i][1] = key

\* Auth.get: the entry of providerID, undefined when the file has none.
AuthGet(file, providerID) ==
    IF HasKey(file, providerID)
    THEN (CHOOSE e \in {file[i] : i \in 1 .. Len(file)} : e[1] = providerID)[2]
    ELSE Undefined

\* Auth.set that writes `{ [key]: info }`, the new entry alone.
AuthSetAlone(file, key, info) == <<<<key, info>>>>

\* Auth.set: `{ ...data, [key]: info }`, the entry replaced in place or added
\* at the end.
AuthSet(file, key, info) ==
    IF HasKey(file, key)
    THEN [i \in 1 .. Len(file) |-> IF file[i][1] = key THEN <<key, info>> ELSE file[i]]
    ELSE Append(file, <<key, info>>)

\* Auth.remove: `delete data[key]`, the other entries kept in their order.
AuthRemove(file, key) == SelectSeq(file, LAMBDA e : e[1] # key)

\* How many set and remove calls a behaviour holds.
MaxStoreCalls == 3

\* The keys and the records of the calls.
StoreKeys == {Provider, "openai"}
StoreInfos == {OldCredential, NewCredential, [type |-> "api", key |-> "k"]}

\* A call of Auth.set.
StoreSet ==
    /\ Len(storeLog) < MaxStoreCalls
    /\ \E key \in StoreKeys, info \in StoreInfos :
         /\ storeFile' = AuthSet(storeFile, key, info)
         /\ storeLog' = Append(storeLog, [op |-> "set", key |-> key, info |-> info])
    /\ UNCHANGED storeBefore
    /\ UNCHANGED <<streamVars, mergeVars, tuiVars, loginVars, legacyVars, assistVars>>

\* A call of Auth.remove, as logout makes for the provider.
StoreRemove ==
    /\ Len(storeLog) < MaxStoreCalls
    /\ \E key \in StoreKeys :
         /\ storeFile' = AuthRemove(storeFile, key)
         /\ storeLog' = Append(storeLog, [op |-> "remove", key |-> key, info |-> Undefined])
    /\ UNCHANGED storeBefore
    /\ UNCHANGED <<streamVars, mergeVars, tuiVars, loginVars, legacyVars, assistVars>>

\* auth.json is absent, or holds what an earlier login stored.
StoreInit ==
    /\ storeFile \in {<<>>, <<<<Provider, OldCredential>>>>}
    /\ storeBefore = storeFile
    /\ storeLog = <<>>
    /\ StreamIdle
    /\ MergeIdle
    /\ TuiInit
    /\ LoginIdle
    /\ LegacyIdle
    /\ AssistIdle

StoreNext == StoreSet \/ StoreRemove

SpecStore == StoreInit /\ [][StoreNext]_vars

-----------------------------------------------------------------------------
(* AuthGithubCopilot, the device authorization flow *)

\* The polling intervals, in seconds, a session may dictate.
Intervals == {1, 5}

\* authorize: the session of a device authorization.
DeviceSessions ==
    {[device |-> "dc", user |-> "ABCD-1234", verification |-> "https://github.com/login/device",
      interval |-> n] : n \in Intervals}

\* poll: the statuses it returns.
PollStatuses == {"pending", "complete", "error"}

\* poll that stores a credential whatever it answers.
PollPersistsAnyAnswer(answer) == TRUE

\* poll stores the credential when the authorization is complete, and only then.
PollPersists(answer) == answer = "complete"

\* auth.json after a poll that answers `answer`.
FileAfterPoll(file, answer) ==
    IF PollPersists(answer) THEN AuthSet(file, Provider, NewCredential) ELSE file

-----------------------------------------------------------------------------
(* login *)

\* `const maxAttempts = 120`
maxAttempts == 120

\* The loop that polls once more when the budget is spent.
PollAgainInclusive(st, n) == st = "pending" /\ n <= maxAttempts

\* `while (status === 'pending' && attempts < maxAttempts)`
PollAgain(st, n) == st = "pending" /\ n < maxAttempts

\* A timer of no length.
SleepForNothing(interval) == 0

\* `deviceInfo.interval * 1000`, the milliseconds of the timer.
SleepFor(interval) == interval * 1000

\* A login that takes every answer but `error` for success.
LoginSucceedsUnlessError(st) == st # "error"

\* `if (status === 'complete')`
LoginSucceeds(st) == st = "complete"

SuccessLine == "Successfully logged into GitHub Copilot!"
FailedLine == "Authorization failed or timed out"
LoginFailedLine == "Login failed:"

\* The loop test with `st` and `n` as status and attempts: into the loop body,
\* up to the timer, or past the loop to the report of the result.
LoopTest(st, n) ==
    IF PollAgain(st, n)
    THEN /\ loginPc' = "sleep"
         /\ UNCHANGED <<loginLog, exitCode>>
    ELSE /\ loginPc' = "exited"
         /\ IF LoginSucceeds(st)
            THEN loginLog' = SuccessLine /\ exitCode' = 0
            ELSE loginLog' = FailedLine /\ exitCode' = 1

\* The catch block: 'Login failed:' and process.exit(1).
LoginCatches ==
    /\ loginPc' = "exited"
    /\ loginLog' = LoginFailedLine
    /\ exitCode' = 1

\* authorize returns a session: login prints the code and enters the loop.
AuthorizeReturns ==
    /\ loginPc = "start"
    /\ authorizeCalls' = authorizeCalls + 1
    /\ \E session \in DeviceSessions : deviceInfo' = session
    /\ status' = "pending"
    /\ attempts' = 0
    /\ LoopTest("pending", 0)
    /\ UNCHANGED <<authFile, fileBefore, pollCalls, answers, sleeps, slept, raised>>
    /\ UNCHANGED <<streamVars, mergeVars, tuiVars, legacyVars, assistVars, storeVars>>

\* authorize that is called again after it raised.
AuthorizeRaisesAndRetries ==
    /\ loginPc = "start"
    /\ authorizeCalls < 2
    /\ authorizeCalls' = authorizeCalls + 1
    /\ raised' = "authorize"
    /\ UNCHANGED <<loginPc, deviceInfo, status, attempts, authFile, fileBefore,
                   pollCalls, answers, sleeps, slept, loginLog, exitCode>>
    /\ UNCHANGED <<streamVars, mergeVars, tuiVars, legacyVars, assistVars, storeVars>>

\* authorize raises: the catch block ends the command.
AuthorizeRaises ==
    /\ loginPc = "start"
    /\ authorizeCalls' = authorizeCalls + 1
    /\ raised' = "authorize"
    /\ LoginCatches
    /\ UNCHANGED <<deviceInfo, status, attempts, authFile, fileBefore, pollCalls,
                   answers, sleeps, slept>>
    /\ UNCHANGED <<streamVars, mergeVars, tuiVars, legacyVars, assistVars, storeVars>>

\* The timer of the loop body runs out.
Sleep ==
    /\ loginPc = "sleep"
    /\ sleeps' = sleeps + 1
    /\ slept' = slept + SleepFor(deviceInfo.interval)
    /\ loginPc' = "poll"
    /\ UNCHANGED <<deviceInfo, status, attempts, authFile, fileBefore, authorizeCalls,
                   pollCalls, answers, raised, loginLog, exitCode>>
    /\ UNCHANGED <<streamVars, mergeVars, tuiVars, legacyVars, assistVars, storeVars>>

\* poll returns a status: `attempts++`, then the loop test.
PollAnswers ==
    /\ loginPc = "poll"
    /\ pollCalls' = pollCalls + 1
    /\ \E answer \in PollStatuses :
         /\ authFile' = FileAfterPoll(authFile, answer)
         /\ answers' = Append(answers, answer)
         /\ status' = answer
         /\ attempts' = attempts + 1
         /\ LoopTest(answer, attempts + 1)
    /\ UNCHANGED <<deviceInfo, fileBefore, authorizeCalls, sleeps, slept, raised>>
    /\ UNCHANGED <<streamVars, mergeVars, tuiVars, legacyVars, assistVars, storeVars>>

\* poll raises: the catch block ends the command.
PollRaises ==
    /\ loginPc = "poll"
    /\ pollCalls' = pollCalls + 1
    /\ raised' = "poll"
    /\ LoginCatches
    /\ UNCHANGED <<deviceInfo, status, attempts, authFile, fileBefore, authorizeCalls,
                   answers, sleeps, slept>>
    /\ UNCHANGED <<streamVars, mergeVars, tuiVars, legacyVars, assistVars, storeVars>>

\* The command starts, on a machine that never logged in or on one that did.
LoginInit ==
    /\ loginPc = "start"
    /\ deviceInfo = Undefined
    /\ status = ""
    /\ attempts = 0
    /\ authFile \in {<<>>, <<<<Provider, OldCredential>>>>,
                     <<<<"openai", [type |-> "api", key |-> "k"]>>>>}
    /\ fileBefore = authFile
    /\ authorizeCalls = 0
    /\ pollCalls = 0
    /\ answers = <<>>
    /\ sleeps = 0
    /\ slept = 0
    /\ raised = "none"
    /\ loginLog = ""
    /\ exitCode = -1
    /\ StreamIdle
    /\ MergeIdle
    /\ TuiInit
    /\ LegacyIdle
    /\ AssistIdle
    /\ StoreIdle

LoginNext ==
    \/ AuthorizeReturns
    \/ AuthorizeRaises
    \/ Sleep
    \/ PollAnswers
    \/ PollRaises

SpecLogin == LoginInit /\ [][LoginNext]_vars

-----------------------------------------------------------------------------
(* The tool loop of the REPL and of the chat command *)

\* `JSON.parse(args)` and `const { path } = ...`: whether the statement raises
\* (no text, text that is not JSON, or null), and the path it binds.
ParsePath(args) ==
    IF args.t # "string" THEN [raised |-> TRUE, path |-> Undefined]
    ELSE LET r == JSONParseArguments(args.v) IN
         IF r.threw \/ ~r.object THEN [raised |-> TRUE, path |-> Undefined]
         ELSE [raised |-> FALSE, path |-> r.path]

\* The content of the function message: readFileSync(path, 'utf-8'), or the
\* error it raised, written by the inner catch block.
ReadResult(path) ==
    IF path.t # "string"
    THEN "Error reading file: TypeError: The \"path\" argument must be of type string"
    ELSE IF path.v \in DOMAIN Files THEN Files[path.v]
    ELSE "Error reading file: Error: ENOENT: no such file or directory, open '"
             \o path.v \o "'"

\* The function message of a read_file call.
ToolResult(toolCall, content) ==
    [role |-> "function", content |-> content, tool_call_id |-> toolCall.id,
     name |-> toolCall.name]

\* `for (const toolCall of toolCalls)`, from call k + 1 on: a read_file call adds
\* its function message, a call of another name adds nothing, and what
\* JSON.parse raises leaves the loop. Gives the messages, whether the loop
\* raised, and how many calls it got through.
RECURSIVE RunToolCalls(_, _, _)
RunToolCalls(history, calls, k) ==
    IF k >= Len(calls) THEN [messages |-> history, raised |-> FALSE, handled |-> k]
    ELSE LET toolCall == calls[k + 1] IN
         IF toolCall.name = Str("read_file")
         THEN LET parsed == ParsePath(toolCall.arguments) IN
              IF parsed.raised
              THEN [messages |-> history, raised |-> TRUE, handled |-> k]
              ELSE RunToolCalls(
                       Append(history, ToolResult(toolCall, ReadResult(parsed.path))),
                       calls, k + 1)
         ELSE RunToolCalls(history, calls, k + 1)

ChatFailedLine == "Chat failed:"

-----------------------------------------------------------------------------
(* repl: askQuestion *)

\* How many lines the user enters at the prompt.
MaxQuestions == 2

\* What the user enters: exit, a command, a blank line, a question.
Inputs == {"Exit", "/history", "  ", "what's in a.txt"}

RespWhole == DataLine(DocWhole) \o DoneLine
RespCutThenWhole == DataLine(DocCutThenWhole) \o DoneLine
RespGrepThenWhole == DataLine(DocHi) \o DataLine(DocGrepThenWhole) \o DoneLine

\* The response bodies the REPL gets.
ReplResponses ==
    {RespFinal, RespReadFile, RespWhole, RespCutThenWhole, RespGrepThenWhole}

\* `toolCalls.push(...chunk.tool_calls)`
Collect(list, updates) == list \o updates

\* The first `for await` loop: every fragment of every event goes to the end
\* of toolCalls, and `chunk.content || ''` to the end of fullResponse.
RECURSIVE ReplFirstLoop(_, _)
ReplFirstLoop(chunks, acc) ==
    IF chunks = <<>> THEN acc
    ELSE LET chunk == Head(chunks) IN
         ReplFirstLoop(Tail(chunks),
             [toolCalls |-> IF Truthy(chunk.tool_calls)
                            THEN Collect(acc.toolCalls, chunk.tool_calls.v)
                            ELSE acc.toolCalls,
              fullResponse |-> acc.fullResponse \o Or(chunk.content, Str("")).v])

\* The second `for await` loop: `finalResponse += chunk.content || ''`.
RECURSIVE ReplSecondLoop(_, _)
ReplSecondLoop(chunks, finalResponse) ==
    IF chunks = <<>> THEN finalResponse
    ELSE ReplSecondLoop(Tail(chunks),
                        finalResponse \o Or(Head(chunks).content, Str("")).v)

\* The REPL's tool loop, lines 322-343.
ReplToolLoop(history, calls) == RunToolCalls(history, calls, 0)

\* The callback of rl.question is entered with a line.
ReplPrompted ==
    /\ cliCommand = "repl"
    /\ cliPc = "prompt"
    /\ questions < MaxQuestions
    /\ questions' = questions + 1

\* `input.toLowerCase() === 'exit'`
IsExit(input) == input \in {"exit", "Exit", "EXIT"}

\* `if (input.toLowerCase() === 'exit')`: rl.close().
ReplExit(input) ==
    /\ ReplPrompted
    /\ IsExit(input)
    /\ cliPc' = "closed"
    /\ printed' = "008: Goodbye!"
    /\ UNCHANGED <<cliCommand, replHistory, chatMessages, fullResponse, cliToolCalls,
                   handled, cliRequests, chatFailed, transportFailed, cliExit>>

\* handleCommand returns true, or the line is blank: the prompt comes back.
ReplSkips(input) ==
    /\ ReplPrompted
    /\ ~IsExit(input)
    /\ StartsWith(input, "/") \/ Trim(input) = ""
    /\ UNCHANGED <<cliCommand, cliPc, replHistory, chatMessages, fullResponse,
                   cliToolCalls, handled, cliRequests, chatFailed, transportFailed,
                   printed, cliExit>>

\* A question: the user message is pushed and the first chatStream call made.
ReplAsks(input) ==
    /\ ReplPrompted
    /\ ~IsExit(input)
    /\ ~StartsWith(input, "/")
    /\ Trim(input) # ""
    /\ replHistory' = Append(replHistory, UserMessage(input))
    /\ fullResponse' = ""
    /\ cliToolCalls' = <<>>
    /\ handled' = 0
    /\ cliRequests' = 1
    /\ chatFailed' = FALSE
    /\ transportFailed' = FALSE
    /\ printed' = "008:"
    /\ cliPc' = "first"
    /\ UNCHANGED <<cliCommand, chatMessages, cliExit>>

AskQuestion ==
    /\ \E input \in Inputs : ReplExit(input) \/ ReplSkips(input) \/ ReplAsks(input)
    /\ UNCHANGED <<streamVars, mergeVars, tuiVars, loginVars, assistVars, storeVars>>

\* The catch block of askQuestion: 'Chat failed:', then the prompt.
ReplCatches ==
    /\ chatFailed' = TRUE
    /\ printed' = ChatFailedLine
    /\ cliPc' = "prompt"

\* The first response is read to its end: with tool calls, the tool loop runs
\* and the second chatStream call is made; without, the assistant message is
\* pushed.
ReplFirstStreamEnds ==
    /\ cliCommand = "repl"
    /\ cliPc = "first"
    /\ \E body \in ReplResponses :
         LET first == ReplFirstLoop(ChatStream(<<body>>).yielded,
                                    [toolCalls |-> <<>>, fullResponse |-> ""])
             loop == ReplToolLoop(replHistory, first.toolCalls)
         IN /\ fullResponse' = first.fullResponse
            /\ cliToolCalls' = first.toolCalls
            /\ IF Len(first.toolCalls) > 0
               THEN /\ replHistory' = loop.messages
                    /\ handled' = loop.handled
                    /\ IF loop.raised
                       THEN /\ ReplCatches
                            /\ UNCHANGED cliRequests
                       ELSE /\ cliPc' = "second"
                            /\ cliRequests' = cliRequests + 1
                            /\ UNCHANGED <<chatFailed, printed>>
               ELSE /\ replHistory' = Append(replHistory,
                                             AssistantMessage(first.fullResponse))
                    /\ cliPc' = "prompt"
                    /\ UNCHANGED <<handled, cliRequests, chatFailed, printed>>
    /\ UNCHANGED <<cliCommand, chatMessages, transportFailed, cliExit, questions>>
    /\ UNCHANGED <<streamVars, mergeVars, tuiVars, loginVars, assistVars, storeVars>>

\* The second response is read to its end: its text is added to fullResponse
\* and the assistant message pushed.
ReplSecondStreamEnds ==
    /\ cliCommand = "repl"
    /\ cliPc = "second"
    /\ \E body \in ReplResponses :
         LET finalResponse == ReplSecondLoop(ChatStream(<<body>>).yielded, "") IN
           /\ fullResponse' = fullResponse \o finalResponse
           /\ replHistory' = Append(replHistory, AssistantMessage(fullResponse'))
    /\ cliPc' = "prompt"
    /\ UNCHANGED <<cliCommand, chatMessages, cliToolCalls, handled, cliRequests,
                   chatFailed, transportFailed, printed, cliExit, questions>>
    /\ UNCHANGED <<streamVars, mergeVars, tuiVars, loginVars, assistVars, storeVars>>

\* chatStream raises (no token, status not ok, a read that fails).
ReplStreamRaises ==
    /\ cliCommand = "repl"
    /\ cliPc \in {"first", "second"}
    /\ transportFailed' = TRUE
    /\ ReplCatches
    /\ UNCHANGED <<cliCommand, replHistory, chatMessages, fullResponse, cliToolCalls,
                   handled, cliRequests, cliExit, questions>>
    /\ UNCHANGED <<streamVars, mergeVars, tuiVars, loginVars, assistVars, storeVars>>

-----------------------------------------------------------------------------
(* chat, the command that does not stream *)

\* `choices[0]?.message` of the responses the command gets: text, no text,
\* no choice at all, and tool calls.
ChatMessage(content, tool_calls) == [content |-> content, tool_calls |-> tool_calls]
ChatResponses ==
    {ChatMessage(Str("hi"), Undefined),
     ChatMessage(Str(""), Undefined),
     ChatMessage(Undefined, Undefined),
     ChatMessage(Null, Arr(<<>>)),
     ChatMessage(Null, Arr(<<FragWhole>>)),
     ChatMessage(Str("hi"), Arr(<<FragGrepWhole, FragUnreadable>>)),
     ChatMessage(Null, Arr(<<FragCutFirst, FragWholeNext>>))}

\* The messages the user passes on the command line.
ChatArguments == {"what's in a.txt", "hi"}

\* The command's tool loop, lines 88-108.
ChatToolLoop(history, calls) == RunToolCalls(history, calls, 0)

\* The catch block of chat: 'Chat failed:' and process.exit(1).
ChatCatches ==
    /\ chatFailed' = TRUE
    /\ printed' = ChatFailedLine
    /\ cliExit' = 1
    /\ cliPc' = "exited"

\* What the command prints of a response: its content, or that there is none.
Shown(content, otherwise) == IF Truthy(content) THEN content.v ELSE otherwise

\* The first response arrives: with tool_calls the tool loop runs and the
\* second request is made; without, the content is printed.
ChatFirstResponse ==
    /\ cliCommand = "chat"
    /\ cliPc = "first"
    /\ \E response \in ChatResponses :
         IF Truthy(response.tool_calls)
         THEN LET loop == ChatToolLoop(chatMessages, response.tool_calls.v) IN
                /\ cliToolCalls' = response.tool_calls.v
                /\ chatMessages' = loop.messages
                /\ handled' = loop.handled
                /\ IF loop.raised
                   THEN /\ ChatCatches
                        /\ UNCHANGED cliRequests
                   ELSE /\ cliPc' = "second"
                        /\ cliRequests' = cliRequests + 1
                        /\ UNCHANGED <<chatFailed, printed, cliExit>>
         ELSE /\ printed' = Shown(response.content, "No response from 008")
              /\ cliPc' = "exited"
              /\ cliExit' = 0
              /\ UNCHANGED <<cliToolCalls, chatMessages, handled, cliRequests,
                             chatFailed>>
    /\ UNCHANGED <<cliCommand, replHistory, fullResponse, transportFailed, questions>>
    /\ UNCHANGED <<streamVars, mergeVars, tuiVars, loginVars, assistVars, storeVars>>

\* The second response arrives: its content is printed.
ChatSecondResponse ==
    /\ cliCommand = "chat"
    /\ cliPc = "second"
    /\ \E response \in ChatResponses :
         printed' = Shown(response.content, "No final response from 008")
    /\ cliPc' = "exited"
    /\ cliExit' = 0
    /\ UNCHANGED <<cliCommand, replHistory, chatMessages, fullResponse, cliToolCalls,
                   handled, cliRequests, chatFailed, transportFailed, questions>>
    /\ UNCHANGED <<streamVars, mergeVars, tuiVars, loginVars, assistVars, storeVars>>

\* CopilotAPI.chat raises (no token, status not ok).
ChatRequestRaises ==
    /\ cliCommand = "chat"
    /\ cliPc \in {"first", "second"}
    /\ transportFailed' = TRUE
    /\ ChatCatches
    /\ UNCHANGED <<cliCommand, replHistory, chatMessages, fullResponse, cliToolCalls,
                   handled, cliRequests, questions>>
    /\ UNCHANGED <<streamVars, mergeVars, tuiVars, loginVars, assistVars, storeVars>>

-----------------------------------------------------------------------------
(* The REPL and the chat command: the specification *)

\* repl at its first prompt, or chat at its first request.
LegacyInit ==
    /\ cliCommand \in {"repl", "chat"}
    /\ replHistory = <<>>
    /\ IF cliCommand = "repl"
       THEN /\ cliPc = "prompt"
            /\ chatMessages = <<>>
            /\ cliRequests = 0
            /\ printed = ""
       ELSE /\ cliPc = "first"
            /\ chatMessages \in {<<UserMessage(message)>> : message \in ChatArguments}
            /\ cliRequests = 1
            /\ printed = "008:"
    /\ fullResponse = ""
    /\ cliToolCalls = <<>>
    /\ handled = 0
    /\ chatFailed = FALSE
    /\ transportFailed = FALSE
    /\ cliExit = -1
    /\ questions = 0
    /\ StreamIdle
    /\ MergeIdle
    /\ TuiInit
    /\ LoginIdle
    /\ AssistIdle
    /\ StoreIdle

LegacyNext ==
    \/ AskQuestion
    \/ ReplFirstStreamEnds
    \/ ReplSecondStreamEnds
    \/ ReplStreamRaises
    \/ ChatFirstResponse
    \/ ChatSecondResponse
    \/ ChatRequestRaises

SpecLegacy == LegacyInit /\ [][LegacyNext]_vars

-----------------------------------------------------------------------------
(* The command assistant *)

\* The places of character c in content.
PlacesOf(content, c) == {i \in 1 .. Len(content) : SubSeq(content, i, i) = c}

\* content.indexOf(c) and content.lastIndexOf(c), counted from 1; 0 for -1.
IndexOf(content, c) ==
    LET at == PlacesOf(content, c) IN IF at = {} THEN 0 ELSE Nth(at, 1)
LastIndexOf(content, c) ==
    LET at == PlacesOf(content, c) IN IF at = {} THEN 0 ELSE Nth(at, Cardinality(at))

\* JSON.parse of the texts between braces the assistant may write: whether it
\* raised, and the `command`, `explanation` and `summary` of the object.
JSONParseProposal(json) ==
    CASE json = "{\"command\":\"ls -la\",\"explanation\":\"lists files\"}" ->
             [threw |-> FALSE, command |-> Str("ls -la"),
              explanation |-> Str("lists files"), summary |-> Undefined]
      [] json = "{\"command\":\" du -sh . \"}" ->
             [threw |-> FALSE, command |-> Str(" du -sh . "),
              explanation |-> Undefined, summary |-> Undefined]
      [] json = "{\"command\":\"  \",\"explanation\":\"no safe command\"}" ->
             [threw |-> FALSE, command |-> Str("  "),
              explanation |-> Str("no safe command"), summary |-> Undefined]
      [] json = "{\"command\":1}" ->
             [threw |-> FALSE, command |-> Num(1),
              explanation |-> Undefined, summary |-> Undefined]
      [] json = "{\"explanation\":\"ask again\"}" ->
             [threw |-> FALSE, command |-> Undefined,
              explanation |-> Str("ask again"), summary |-> Undefined]
      [] OTHER ->
             [threw |-> TRUE, command |-> Undefined,
              explanation |-> Undefined, summary |-> Undefined]

\* extractJson: the object between the first "{" and the last "}", Null when
\* there is no such text or JSON.parse raises.
extractJson(content) ==
    LET start == IndexOf(content, "{")
        end == LastIndexOf(content, "}")
    IN IF start = 0 \/ end = 0 \/ end <= start THEN Null
       ELSE LET r == JSONParseProposal(SubSeq(content, start, end)) IN
            IF r.threw THEN Null
            ELSE [t |-> "object", command |-> r.command,
                  explanation |-> r.explanation, summary |-> r.summary]

\* `typeof x === 'string' ? x.trim() : otherwise`
TrimmedString(x, otherwise) == IF x.t = "string" THEN Str(Trim(x.v)) ELSE otherwise

\* parseProposal: the proposal of a text, Null when the text holds no object or
\* the object no command.
parseProposal(content) ==
    LET json == extractJson(content) IN
    IF json = Null THEN Null
    ELSE LET command == TrimmedString(json.command, Str("")).v IN
         IF command = "" THEN Null
         ELSE [t |-> "object", command |-> command,
               explanation |-> TrimmedString(json.explanation, Undefined),
               summary |-> TrimmedString(json.summary, Undefined)]

\* s.toLowerCase(), on the letters the answers are written with.
RECURSIVE ToLowerCase(_)
ToLowerCase(s) ==
    IF s = "" THEN ""
    ELSE LET c == SubSeq(s, 1, 1) IN
         (CASE c = "Y" -> "y" [] c = "E" -> "e" [] c = "S" -> "s"
            [] c = "N" -> "n" [] c = "O" -> "o" [] OTHER -> c)
         \o ToLowerCase(SubSeq(s, 2, Len(s)))

\* requestApproval that runs the command unless the answer says no.
ApprovedUnlessNo(value) == ~StartsWith(ToLowerCase(Trim(value)), "n")

\* requestApproval: `resolve(value.trim())`, then
\* `answer.toLowerCase().startsWith('y')`.
Approved(value) == StartsWith(ToLowerCase(Trim(value)), "y")

\* process.argv.slice(2), as the user may write it.
AssistArgs == {<<>>, <<" ">>, <<"list", "files">>, <<" disk usage ">>}

\* args.join(' ')
RECURSIVE JoinArgs(_)
JoinArgs(args) ==
    IF args = <<>> THEN ""
    ELSE IF Len(args) = 1 THEN args[1]
    ELSE args[1] \o " " \o JoinArgs(Tail(args))

\* The contents of the events of a response, in order; "" stands for an event
\* without content.
AssistStreams ==
    {<<"Sure: {\"command\":\"ls -la\"", "", ",\"explanation\":\"lists files\"}", " Done.">>,
     <<"{\"command\":\" du -sh . \"}", " or {\"command\":1}">>,
     <<"{\"command\":\"  \",", "\"explanation\":\"no safe command\"}">>,
     <<"{\"command\":1}">>,
     <<"{\"explanation\":\"ask again\"}">>,
     <<"} I cannot {">>,
     <<"{\"command\":}">>,
     <<>>}

\* What the user answers the approval prompt with.
Answers == {"", "  ", "y", "Y", "yes", "YES", " y", "n", "N", "no", "ok yes"}

UsageLine == "Usage: bun run command-assist.ts <task description>"
NoProposalLine == "No command proposal returned. Please try rephrasing the request."
CancelledLine == "Command execution cancelled."

\* main up to the first event of chatStream: the usage error, or the request.
AssistMain ==
    /\ assistPc = "start"
    /\ IF rawQuery = ""
       THEN /\ assistLog' = UsageLine
            /\ assistExit' = 1
            /\ assistPc' = "exited"
            /\ UNCHANGED assistChunks
       ELSE /\ \E stream \in AssistStreams : assistChunks' = stream
            /\ assistPc' = "planning"
            /\ UNCHANGED <<assistLog, assistExit>>
    /\ UNCHANGED <<rawQuery, assistBuffer, proposal, approvalAnswer, spawned>>
    /\ UNCHANGED <<streamVars, mergeVars, tuiVars, loginVars, legacyVars, storeVars>>

\* requestCommand returns null: main prints that there is no proposal and exits.
NoProposal ==
    /\ assistLog' = NoProposalLine
    /\ assistExit' = 1
    /\ assistPc' = "exited"
    /\ UNCHANGED <<proposal, assistBuffer>>

\* The body of the for await loop of requestCommand for the next event: the
\* content joins the buffer, and a buffer that parses is the proposal, which
\* main renders before it asks for approval.
AssistChunkArrives ==
    /\ assistPc = "planning"
    /\ assistChunks # <<>>
    /\ LET content == Head(assistChunks)
           parsed == parseProposal(assistBuffer \o content)
       IN IF content = ""
          THEN UNCHANGED <<assistBuffer, proposal, assistPc, assistLog>>
               /\ assistChunks' = Tail(assistChunks)
          ELSE /\ assistBuffer' = assistBuffer \o content
               /\ IF parsed # Null
                  THEN /\ proposal' = parsed
                       /\ assistPc' = "approval"
                       /\ assistLog' = "command  " \o parsed.command
                       /\ assistChunks' = <<>>
                  ELSE /\ assistChunks' = Tail(assistChunks)
                       /\ UNCHANGED <<proposal, assistPc, assistLog>>
    /\ UNCHANGED <<rawQuery, approvalAnswer, spawned, assistExit>>
    /\ UNCHANGED <<streamVars, mergeVars, tuiVars, loginVars, legacyVars, storeVars>>

\* The stream is over: the buffer is parsed once more, and without a proposal
\* requestCommand returns null.
AssistStreamEnds ==
    /\ assistPc = "planning"
    /\ assistChunks = <<>>
    /\ LET parsed == IF assistBuffer # "" THEN parseProposal(assistBuffer) ELSE Null IN
         IF parsed # Null
         THEN /\ proposal' = parsed
              /\ assistPc' = "approval"
              /\ assistLog' = "command  " \o parsed.command
              /\ UNCHANGED <<assistBuffer, assistExit>>
         ELSE NoProposal
    /\ UNCHANGED <<rawQuery, assistChunks, approvalAnswer, spawned>>
    /\ UNCHANGED <<streamVars, mergeVars, tuiVars, loginVars, legacyVars, storeVars>>

\* chatStream raises: requestCommand catches and returns null.
AssistStreamRaises ==
    /\ assistPc = "planning"
    /\ NoProposal
    /\ assistChunks' = <<>>
    /\ UNCHANGED <<rawQuery, approvalAnswer, spawned>>
    /\ UNCHANGED <<streamVars, mergeVars, tuiVars, loginVars, legacyVars, storeVars>>

\* The user answers the prompt: executeCommand spawns the command of the
\* proposal, or main prints that it is cancelled and returns.
AssistAnswer ==
    /\ assistPc = "approval"
    /\ \E value \in Answers :
         /\ approvalAnswer' = value
         /\ IF Approved(value)
            THEN /\ spawned' = Append(spawned, proposal.command)
                 /\ assistPc' = "running"
                 /\ UNCHANGED <<assistLog, assistExit>>
            ELSE /\ assistLog' = CancelledLine
                 /\ assistExit' = 0
                 /\ assistPc' = "exited"
                 /\ UNCHANGED spawned
    /\ UNCHANGED <<rawQuery, assistChunks, assistBuffer, proposal>>
    /\ UNCHANGED <<streamVars, mergeVars, tuiVars, loginVars, legacyVars, storeVars>>

\* The child exits with a code, or spawn fails: executeCommand resolves, having
\* printed the failure if there is one, and main returns.
AssistChildEnds ==
    /\ assistPc = "running"
    /\ \E code \in {0, 1, 127} :
         assistLog' = IF code = 0 THEN assistLog
                      ELSE "Command execution failed: Command exited with code "
                               \o ToString(code)
    /\ assistExit' = 0
    /\ assistPc' = "exited"
    /\ UNCHANGED <<rawQuery, assistChunks, assistBuffer, proposal, approvalAnswer,
                   spawned>>
    /\ UNCHANGED <<streamVars, mergeVars, tuiVars, loginVars, legacyVars, storeVars>>

\* The script starts with its arguments.
AssistInit ==
    /\ assistPc = "start"
    /\ rawQuery \in {Trim(JoinArgs(args)) : args \in AssistArgs}
    /\ assistChunks = <<>>
    /\ assistBuffer = ""
    /\ proposal = Null
    /\ approvalAnswer = ""
    /\ spawned = <<>>
    /\ assistLog = ""
    /\ assistExit = -1
    /\ StreamIdle
    /\ MergeIdle
    /\ TuiInit
    /\ LoginIdle
    /\ LegacyIdle
    /\ StoreIdle

AssistNext ==
    \/ AssistMain
    \/ AssistChunkArrives
    \/ AssistStreamEnds
    \/ AssistStreamRaises
    \/ AssistAnswer
    \/ AssistChildEnds

SpecAssist == AssistInit /\ [][AssistNext]_vars

-----------------------------------------------------------------------------
(* Claims about the decoder, checked under SpecStream *)

\* s is a prefix of q
IsPrefix(s, q) == Len(s) <= Len(q) /\ s = SubSeq(q, 1, Len(s))

\* The whole text decoded in one shot: a single chunk, then the end of the body.
OneShot(t) == ChatStream(<<t>>)

\* The complete lines of t: those a "\n" ends.
CompleteLines(t) == LET all == Split(t) IN SubSeq(all, 1, Len(all) - 1)

\* The positions of the complete "data: [DONE]" lines among `lines`.
DonePositions(lines) == {k \in 1 .. Len(lines) : lines[k] = "data: [DONE]"}

\* C4: chunk-boundary independence. However the text is split into chunks, the
\* events yielded so far are a prefix of those of the one-shot decoding, and when
\* the generator has finished they are exactly those.
C4_ChunkBoundaryIndependence ==
    /\ IsPrefix(yielded, OneShot(text).yielded)
    /\ gen # "reading" => yielded = OneShot(text).yielded

\* A finished run that read one byte at a time, held partial lines back and
\* yielded the event of a line with a two-byte character.
C4_Witness ==
    /\ gen \in {"returned", "ended"}
    /\ bytewise
    /\ heldBack
    /\ pos > 1
    /\ yielded = <<Event(Delta(Str(EAcute), Undefined))>>

\* C5: once a complete line "data: [DONE]" has been read the generator has
\* returned, and what it has yielded are the events of the lines before that
\* line only: nothing of the later lines, of the partial line or of later chunks.
C5_SentinelEndsStream ==
    LET lines == CompleteLines(Utf8Decode(SubSeq(text, 1, pos)))
        done == DonePositions(lines)
    IN done # {} =>
         /\ gen = "returned"
         /\ yielded = ProcessLines(SubSeq(lines, 1, Nth(done, 1) - 1), 1, <<>>).yielded

\* The generator returned at "[DONE]" with the whole body in its buffer, a data
\* line with a valid payload following the sentinel.
C5_Witness ==
    /\ gen = "returned"
    /\ pos = Len(text)
    /\ LET lines == CompleteLines(text) IN
         \E k \in DonePositions(lines) :
             /\ k < Len(lines)
             /\ lines[k + 1] = "data: " \o DocHi
    /\ Len(yielded) >= 1

\* A data line whose payload does not parse, or holds no delta.
Malformed(line) ==
    /\ StartsWith(line, "data: ")
    /\ Slice(line, 6) # "[DONE]"
    /\ LET r == JSONParseDelta(Slice(line, 6)) IN r.threw \/ ~Truthy(r.delta)

RECURSIVE Join(_, _)
Join(lines, i) ==
    IF i > Len(lines) THEN ""
    ELSE IF i = Len(lines) THEN lines[i]
    ELSE lines[i] \o "\n" \o Join(lines, i + 1)

\* t without its malformed complete lines.
WithoutMalformed(t) ==
    LET all == Split(t)
        keep == {k \in 1 .. Len(all) : k = Len(all) \/ ~Malformed(Utf8Decode(all[k]))}
    IN Join([k \in 1 .. Cardinality(keep) |-> all[Nth(keep, k)]], 1)

\* C6: a malformed data line is skipped: the generator never raises, and the
\* events of a finished run are those of the same text without its malformed
\* lines, in the same order.
C6_MalformedLineSkipped ==
    /\ gen # "threw"
    /\ gen # "reading" => yielded = OneShot(WithoutMalformed(text)).yielded

\* A finished run over a text with a malformed line between two valid ones:
\* the events of both valid lines were yielded.
C6_Witness ==
    /\ gen = "returned"
    /\ text # WithoutMalformed(text)
    /\ yielded = <<Event(Delta(Str("hi"), Undefined)), Event(Delta(Str(" "), Undefined))>>

\* C7 (as claimed): every yielded event carries non-empty text or a tool-call
\* list with at least one fragment.
C7_EveryEventCarriesData ==
    \A i \in 1 .. Len(yielded) :
        \/ yielded[i].content.t = "string" /\ yielded[i].content.v # ""
        \/ yielded[i].tool_calls.t = "array" /\ Len(yielded[i].tool_calls.v) >= 1

\* t up to its last "\n".
UpToLastNewline(t) ==
    LET nl == Newlines(t) IN
    IF nl = {} THEN "" ELSE SubSeq(t, 1, Nth(nl, Cardinality(nl)))

\* C8: when the body ends without a "[DONE]" line the generator ends normally
\* (it never raises), and what followed the last "\n" has yielded nothing: the
\* events are those of the text up to its last "\n".
C8_EndWithoutSentinel ==
    /\ gen # "threw"
    /\ (pos = Len(text) /\ DonePositions(CompleteLines(text)) = {} /\ gen = "reading")
           => ENABLED ReadEnd
    /\ gen = "ended" => yielded = OneShot(UpToLastNewline(text)).yielded

\* The body ended with a complete-looking data payload, not ended by "\n", in
\* the buffer.
C8_Witness ==
    /\ gen = "ended"
    /\ buffer = "data: " \o DocHi
    /\ Len(yielded) = 2

-----------------------------------------------------------------------------
(* Claims about the accumulator, checked under SpecMerge *)

\* C9 (as claimed): the accumulator is independent of the grouping. When both
\* folds have merged the whole sequence, each in its own grouping, they hold
\* the same id, function name and arguments text in every slot. Stated for the
\* groupings the protocol writes, where no event repeats a slot index.
C9_MergeIndependentOfGrouping ==
    (ia = Len(frags) /\ ib = Len(frags) /\ plainA /\ plainB) => accA = accB

\* C10 (as claimed): two fragments went into the same record exactly when they
\* carry the same slot index. Stated for events that do not repeat a slot
\* index, so that fragments of the same slot come in different events.
C10_SlotIndexDecidesRecord ==
    plainA =>
        \A i, j \in 1 .. ia :
            (frags[i].index = frags[j].index) <=> (recA[i] = recA[j])

\* The fragments that a step of the first fold merges into record k.
StepFragments(k) == {i \in (ia + 1) .. ia' : recA'[i] = k}

\* C11: a merge never empties the id or the function name of a record that had
\* one, and when every fragment it merges into a record has a missing or empty
\* id (or name), the record's id (or name) is what it was.
C11_IdAndNameSticky ==
    [][\A k \in 1 .. Len(accA) :
          /\ Len(accA') >= Len(accA)
          /\ accA[k].id # "" => accA'[k].id # ""
          /\ accA[k].function.name # "" => accA'[k].function.name # ""
          /\ (\A i \in StepFragments(k) : ~Truthy(frags[i].id))
                 => accA'[k].id = accA[k].id
          /\ (\A i \in StepFragments(k) : ~Truthy(frags[i].name))
                 => accA'[k].function.name = accA[k].function.name]_vars

\* A record that was given an id and a name has since merged a fragment whose
\* id and name are empty strings.
C11_Witness ==
    \E i, j \in 1 .. ia :
        /\ i < j
        /\ recA[i] = recA[j]
        /\ Truthy(frags[i].id)
        /\ Truthy(frags[i].name)
        /\ frags[j].id = Str("")
        /\ frags[j].name = Str("")

-----------------------------------------------------------------------------
(* Claims about the orchestrator, checked under Spec and FairSpec *)

\* The transcript entries of the turn, its user message first.
TurnEntries == SubSeq(chatHistory, turnStart, Len(chatHistory))

IsToolCallMessage(m) == m.role = "assistant" /\ "tool_calls" \in DOMAIN m
IsFinalMessage(m) == m.role = "assistant" /\ "tool_calls" \notin DOMAIN m

\* The tool-call groups of e from i on: a group is an assistant message
\* carrying n >= 1 tool calls followed by n function messages. `count` groups
\* are found, and `next` is the place of the first entry after them.
RECURSIVE ToolGroups(_, _)
ToolGroups(e, i) ==
    IF /\ i <= Len(e)
       /\ IsToolCallMessage(e[i])
       /\ Len(e[i].tool_calls) >= 1
       /\ i + Len(e[i].tool_calls) <= Len(e)
       /\ \A k \in 1 .. Len(e[i].tool_calls) : e[i + k].role = "function"
    THEN LET r == ToolGroups(e, i + Len(e[i].tool_calls) + 1)
         IN [count |-> r.count + 1, next |-> r.next]
    ELSE [count |-> 0, next |-> i]

\* A turn has ended (and the transcript has not been cleared since).
TurnOver == pc = "idle" /\ outcome \in {"final", "empty", "abort", "error"}

\* C1: a turn all of whose passes ended with tool calls made exactly 4 passes,
\* showed the depth-limit notice and stopped; its entries are the user message
\* and 4 groups of an assistant tool-call message with one function message per
\* tool call, and nothing else: no final assistant text.
C1_AlwaysToolCallsAborts ==
    (TurnOver /\ toolPasses = requests) =>
        /\ outcome = "abort"
        /\ requests = 4
        /\ ~isStreaming
        /\ notices[Len(notices)] = DepthLimitNotice
        /\ TurnEntries[1].role = "user"
        /\ ToolGroups(TurnEntries, 2) = [count |-> 4, next |-> Len(TurnEntries) + 1]

\* A turn whose four passes each ended with tool calls is over.
C1_Witness ==
    /\ TurnOver
    /\ toolPasses = requests
    /\ toolPasses = 4
    /\ outcome = "abort"

\* C2: a turn calls chatStream at most 4 times; once the depth-limit notice is
\* shown the turn has made its 4 calls and nothing of it is in flight; a turn
\* that ends, ends with a final answer, as an empty turn or with the notice,
\* unless a request failed; and every turn ends.
C2_TurnBoundedAndTerminates ==
    /\ [](requests <= 4)
    /\ [](outcome = "abort" => requests = 4 /\ pc = "idle" /\ ~isStreaming)
    /\ []((pc = "idle" /\ outcome \notin {"none", "error"})
              => outcome \in {"final", "empty", "abort"})
    /\ [](pc = "idle" <=> ~isStreaming)
    /\ (isStreaming ~> ~isStreaming)

\* A turn that reached its final answer in the 4th pass.
C2_Witness ==
    /\ TurnOver
    /\ outcome = "final"
    /\ requests = 4
    /\ toolPasses = 3

\* The turn ended in a pass without tool calls.
EndedWithoutToolCalls == pc = "idle" /\ outcome \in {"final", "empty"}

\* The entries of a turn of j tool-call passes and a final answer.
FinalAnswerShape(e, j, finalText) ==
    /\ Len(e) >= 2
    /\ e[1].role = "user"
    /\ ToolGroups(e, 2) = [count |-> j, next |-> Len(e)]
    /\ e[Len(e)] = AssistantMessage(finalText)

\* C3 (as claimed): a turn whose last pass ended with non-empty text and no
\* tool calls, after j <= 3 tool-call passes, appended the user message, the j
\* groups and one assistant message with the final text.
C3_FinalAnswerTranscriptAsClaimed ==
    (EndedWithoutToolCalls /\ accumulatedText # "") =>
        /\ toolPasses \in 0 .. 3
        /\ FinalAnswerShape(TurnEntries, toolPasses, TrimEnd(accumulatedText))

\* C3 (amended): the same, for a last pass whose text is non-empty once its
\* trailing whitespace is removed.
C3_FinalAnswerTranscript ==
    (EndedWithoutToolCalls /\ TrimEnd(accumulatedText) # "") =>
        /\ outcome = "final"
        /\ toolPasses \in 0 .. 3
        /\ FinalAnswerShape(TurnEntries, toolPasses, TrimEnd(accumulatedText))

\* [user, assistant(tool_calls), function(result), assistant(final text)]
C3_Witness ==
    /\ EndedWithoutToolCalls
    /\ toolPasses = 1
    /\ Len(TurnEntries) = 4
    /\ TurnEntries[1] = UserMessage("what's in a.txt")
    /\ IsToolCallMessage(TurnEntries[2])
    /\ TurnEntries[3] =
           [role |-> "function", name |-> "read_file", content |-> "hello",
            tool_call_id |-> "c1"]
    /\ TurnEntries[4] = AssistantMessage("hi")

\* The texts of a sequence, one after the other.
RECURSIVE ConcatAll(_)
ConcatAll(texts) ==
    IF texts = <<>> THEN "" ELSE Head(texts) \o ConcatAll(Tail(texts))

\* C12: the arguments text of every record of the pass is the concatenation, in
\* arrival order, of the arguments texts of the fragments merged into it, a
\* missing one counting as ""; and no step but the clearing of the transcript
\* changes an entry the transcript already holds, so that the records of an
\* earlier pass stay as they were appended.
C12_ArgumentsConcatenated ==
    /\ [](/\ Len(mergedArgs) = Len(pendingToolCalls)
          /\ \A k \in 1 .. Len(pendingToolCalls) :
                pendingToolCalls[k].function.arguments = ConcatAll(mergedArgs[k]))
    /\ [][Len(chatHistory') >= Len(chatHistory)
             => \A h \in 1 .. Len(chatHistory) : chatHistory'[h] = chatHistory[h]]_vars

\* A pass after a tool-call pass has merged two fragments into one record.
C12_Witness ==
    /\ pc = "streaming"
    /\ toolPasses >= 1
    /\ \E h \in turnStart .. Len(chatHistory) : IsToolCallMessage(chatHistory[h])
    /\ \E k \in 1 .. Len(pendingToolCalls) :
          /\ Len(mergedArgs[k]) = 2
          /\ pendingToolCalls[k].function.arguments = "{\"path\":\"a.txt\"}"

\* The pass is over, without a tool call: the generator has nothing more to
\* yield and this step leaves the streaming of the pass.
PassEndsWithoutToolCalls ==
    /\ pc = "streaming"
    /\ events = <<>>
    /\ pendingToolCalls = <<>>
    /\ pc' # "streaming"

\* All the text the pass has received.
PassText == ConcatAll(passContents)

\* C13: a pass that ends with no tool call and with text that is empty or all
\* whitespace appends nothing to the transcript and ends the turn; and an empty
\* turn's last entry is never an assistant message without tool calls.
C13_EmptyPassAppendsNothing ==
    /\ [][(PassEndsWithoutToolCalls /\ Inked(PassText) = {})
             => /\ chatHistory' = chatHistory
                /\ pc' = "idle"
                /\ ~isStreaming'
                /\ outcome' = "empty"
                /\ requests' = requests]_vars
    /\ []((pc = "idle" /\ outcome = "empty")
             => /\ Len(TurnEntries) >= 1
                /\ ~IsFinalMessage(TurnEntries[Len(TurnEntries)]))

\* A turn ended on a pass whose only text was a space.
C13_Witness ==
    /\ pc = "idle"
    /\ outcome = "empty"
    /\ passContents = <<" ">>
    /\ Len(TurnEntries) = 1

\* r is t without its trailing whitespace.
IsTrimEndOf(r, t) ==
    /\ Len(r) <= Len(t)
    /\ r = SubSeq(t, 1, Len(r))
    /\ \A i \in (Len(r) + 1) .. Len(t) : SubSeq(t, i, i) \in Whitespace
    /\ r = "" \/ SubSeq(r, Len(r), Len(r)) \notin Whitespace

\* The step appends one assistant message without tool_calls whose content is
\* the text of the pass without its trailing whitespace.
AppendsFinalMessage ==
    /\ Len(chatHistory') = Len(chatHistory) + 1
    /\ SubSeq(chatHistory', 1, Len(chatHistory)) = chatHistory
    /\ LET m == chatHistory'[Len(chatHistory')] IN
         /\ DOMAIN m = {"role", "content"}
         /\ m.role = "assistant"
         /\ IsTrimEndOf(m.content, PassText)
    /\ outcome' = "final"

\* C14 (as claimed): a pass that ends with no tool call and non-empty text
\* appends exactly one assistant message, without tool_calls, whose content is
\* the text fragments of that pass, concatenated in arrival order, without the
\* trailing whitespace.
C14_FinalMessageIsPassTextAsClaimed ==
    [][(PassEndsWithoutToolCalls /\ PassText # "") => AppendsFinalMessage]_vars

\* C14 (amended): the same, for a pass whose text is not all whitespace.
C14_FinalMessageIsPassText ==
    [][(PassEndsWithoutToolCalls /\ Inked(PassText) # {}) => AppendsFinalMessage]_vars

\* A turn whose first pass said "hi" and called tools, and whose second pass
\* said "hi" and " ", has ended with the final message "hi".
C14_Witness ==
    /\ pc = "idle"
    /\ outcome = "final"
    /\ toolPasses = 1
    /\ passContents = <<"hi", " ">>
    /\ TurnEntries[2].role = "assistant"
    /\ TurnEntries[2].content = "hi"
    /\ IsToolCallMessage(TurnEntries[2])
    /\ TurnEntries[Len(TurnEntries)] = [role |-> "assistant", content |-> "hi"]

\* The places in the transcript of the assistant messages with tool calls.
ToolCallPlaces == {h \in 1 .. Len(chatHistory) : IsToolCallMessage(chatHistory[h])}

\* C15: an assistant message with n tool calls is followed by their function
\* messages in slot order, the k-th with the id and the function name of the
\* k-th tool call; while some are still to come, resolveToolCalls is at work on
\* this message, the last of the transcript's, and has appended one message
\* per tool call it has come to; a request is made or streamed only when none
\* is to come.
C15_ToolResultsInSlotOrder ==
    \A h \in ToolCallPlaces :
        LET calls == chatHistory[h].tool_calls
            n == Len(calls)
        IN /\ n >= 1
           /\ \A k \in 1 .. n :
                 h + k <= Len(chatHistory) =>
                     /\ chatHistory[h + k].role = "function"
                     /\ chatHistory[h + k].tool_call_id = calls[k].id
                     /\ chatHistory[h + k].name = calls[k].function.name
           /\ h + n > Len(chatHistory) =>
                 /\ pc = "describing"
                 /\ calls = pendingToolCalls
                 /\ Len(chatHistory) = h + toolIdx
           /\ pc \in {"request", "streaming"} => h + n <= Len(chatHistory)

\* The pass after a pass with two tool calls is streaming, and the transcript
\* ends with the two function messages.
C15_Witness ==
    /\ pc = "streaming"
    /\ \E h \in ToolCallPlaces :
          /\ Len(chatHistory[h].tool_calls) = 2
          /\ h + 2 = Len(chatHistory)
          /\ chatHistory[h + 1].tool_call_id = "c1"
          /\ chatHistory[h + 2].tool_call_id = "c2"
          /\ chatHistory[h + 2].name = "grep"

\* C16: when no turn is in flight, every tool call of every assistant message
\* of the transcript has a later function message with its id.
C16_NoUnresolvedToolCalls ==
    ~isStreaming =>
        \A h \in ToolCallPlaces :
            \A k \in 1 .. Len(chatHistory[h].tool_calls) :
                \E g \in (h + 1) .. Len(chatHistory) :
                    /\ chatHistory[g].role = "function"
                    /\ chatHistory[g].tool_call_id = chatHistory[h].tool_calls[k].id

\* A turn that had resolved the tool calls of a pass was cut off while its next
\* pass was streaming, with tool calls accumulated.
C16_Witness ==
    /\ ~isStreaming
    /\ outcome = "error"
    /\ toolPasses >= 1
    /\ pendingToolCalls # <<>>
    /\ ToolCallPlaces # {}

\* The tool calls of the transcript that have their function message: the k-th
\* call of the assistant message at h, resolved by the entry at h + k.
ResolvedCalls ==
    {c \in ToolCallPlaces \X (1 .. 5) :
        /\ c[2] <= Len(chatHistory[c[1]].tool_calls)
        /\ c[1] + c[2] <= Len(chatHistory)}
CallAt(c) == chatHistory[c[1]].tool_calls[c[2]]
ResultAt(c) == chatHistory[c[1] + c[2]]

\* resolveToolCalls has just appended the function message of a tool call, and
\* the turn is in flight and has shown no error for it.
Resolving ==
    /\ pc = "describing"
    /\ toolIdx >= 1
    /\ isStreaming
    /\ outcome = "running"

\* resolveToolCalls has returned: every tool call of the pass has its function
\* message, and the loop has come round to its next request or to its limit.
LoopCameRound ==
    /\ pc \in {"request", "idle"}
    /\ outcome \in {"running", "abort"}
    /\ Len(chatHistory) > toolIdx
    /\ IsToolCallMessage(chatHistory[Len(chatHistory) - toolIdx])
    /\ Len(chatHistory[Len(chatHistory) - toolIdx].tool_calls) = toolIdx

NotImplementedText(name) == "Tool " \o name \o " is not implemented in the TUI."

\* C17: the function message of a tool call whose function name is not
\* read_file, the empty name too, says that the tool is not implemented; the
\* turn is then still in flight, unfailed, and goes on to resolve the other
\* tool calls of the pass and to come round the loop.
C17_UnknownToolNotImplemented ==
    /\ [](\A c \in ResolvedCalls :
             CallAt(c).function.name # "read_file" =>
                 ResultAt(c) =
                     [role |-> "function", name |-> CallAt(c).function.name,
                      content |-> NotImplementedText(CallAt(c).function.name),
                      tool_call_id |-> CallAt(c).id])
    /\ []((pc = "describing" /\ toolIdx >= 1) => Resolving)
    /\ ((Resolving /\ pendingToolCalls[toolIdx].function.name # "read_file")
            ~> LoopCameRound)

\* The calls of a tool without a name and of grep were answered, and the next
\* pass has asked for its response.
C17_Witness ==
    /\ pc = "request"
    /\ \E c, d \in ResolvedCalls :
          /\ CallAt(c).function.name = ""
          /\ ResultAt(c).content = "Tool  is not implemented in the TUI."
          /\ ResultAt(c).tool_call_id = "tool-4"
          /\ CallAt(d).function.name = "grep"
          /\ ResultAt(d).content = "Tool grep is not implemented in the TUI."

\* Arguments texts with which a read fails: no path, a path that is a number,
\* the path of a file that is not there.
ReadsThatFail == {"", "{\"path\":1}", "{\"path\":\"b.txt\"}"}

\* C18: the function message of a read_file call has the role, the name and
\* the tool_call_id of any other result; when the read fails its content is an
\* error text, when it succeeds the file's content; after a failed read the
\* turn is still in flight, unfailed, and goes on to resolve the other tool
\* calls of the pass and to come round the loop.
C18_ReadFailureIsAResult ==
    /\ [](\A c \in ResolvedCalls :
             CallAt(c).function.name = "read_file" =>
                 /\ DOMAIN ResultAt(c) = {"role", "name", "content", "tool_call_id"}
                 /\ ResultAt(c).role = "function"
                 /\ ResultAt(c).name = "read_file"
                 /\ ResultAt(c).tool_call_id = CallAt(c).id
                 /\ CallAt(c).function.arguments \in ReadsThatFail
                        => StartsWith(ResultAt(c).content, "Error reading file: ")
                 /\ CallAt(c).function.arguments = "{\"path\":\"a.txt\"}"
                        => ResultAt(c).content = "hello")
    /\ []((pc = "describing" /\ toolIdx >= 1) => Resolving)
    /\ ((/\ Resolving
         /\ pendingToolCalls[toolIdx].function.name = "read_file"
         /\ pendingToolCalls[toolIdx].function.arguments \in ReadsThatFail)
            ~> LoopCameRound)

\* Reads of a missing file and of a path that is a number were answered with
\* error texts, and the next pass has asked for its response.
C18_Witness ==
    /\ pc = "request"
    /\ \E c, d \in ResolvedCalls :
          /\ CallAt(c).id = "r1"
          /\ ResultAt(c).content =
                 "Error reading file: ENOENT: no such file or directory, open 'b.txt'"
          /\ CallAt(d).id = "r2"
          /\ ResultAt(d).content =
                 "Error reading file: read_file requires a valid path argument"

\* Arguments texts that are not JSON, or JSON that is not an object.
ArgumentsThatDoNotParse == {"{\"path\":", "{", "null"}

\* What a tool call gives when it is run with the arguments {}.
ResultOfEmptyArguments(name) ==
    IF name = "read_file"
    THEN "Error reading file: read_file requires a valid path argument"
    ELSE NotImplementedText(name)

\* C19: a tool call whose arguments text does not parse to an object has one
\* function message, the one the call gives with empty arguments (an error
\* text for read_file); the turn is then still in flight, unfailed, and goes on
\* to resolve the other tool calls of the pass and to come round the loop.
C19_BadArgumentsRunEmpty ==
    /\ [](\A c \in ResolvedCalls :
             CallAt(c).function.arguments \in ArgumentsThatDoNotParse =>
                 ResultAt(c) =
                     [role |-> "function", name |-> CallAt(c).function.name,
                      content |-> ResultOfEmptyArguments(CallAt(c).function.name),
                      tool_call_id |-> CallAt(c).id])
    /\ []((pc = "describing" /\ toolIdx >= 1) => Resolving)
    /\ ((/\ Resolving
         /\ pendingToolCalls[toolIdx].function.arguments \in ArgumentsThatDoNotParse)
            ~> LoopCameRound)

\* read_file calls with arguments cut short and with the arguments `null` were
\* answered, and the next pass has asked for its response.
C19_Witness ==
    /\ pc = "request"
    /\ \E c, d \in ResolvedCalls :
          /\ CallAt(c).id = "r3"
          /\ CallAt(c).function.arguments = "{\"path\":"
          /\ ResultAt(c).content =
                 "Error reading file: read_file requires a valid path argument"
          /\ CallAt(d).id = "r4"
          /\ CallAt(d).function.arguments = "null"
          /\ ResultAt(d).role = "function"

\* C20: while a request is outstanding nothing of it has been yielded or
\* accumulated; the step in which it fails shows one error message, leaves the
\* transcript as it is, asks for nothing and ends the turn; a step from an
\* outstanding request never raises the turn's count of requests; and after
\* the failure nothing is shown and nothing is asked for until a submission.
C20_RequestFailureSurfacedOnce ==
    /\ [](pc = "request" =>
             /\ events = <<>>
             /\ accumulatedText = ""
             /\ pendingToolCalls = <<>>)
    /\ [][(pc = "request" /\ pc' = "idle") =>
             /\ \E message \in TransportErrors :
                   notices' = Append(notices, "Error: " \o message)
             /\ chatHistory' = chatHistory
             /\ requests' = requests
             /\ events' = <<>>
             /\ ~isStreaming'
             /\ outcome' = "error"]_vars
    /\ [][pc = "request" => requests' = requests]_vars
    /\ [][(pc = "idle" /\ outcome = "error" /\ submissions' = submissions) =>
             /\ notices' = notices
             /\ requests' = requests
             /\ chatHistory' = chatHistory
             /\ pc' = "idle"]_vars

\* The second request of a turn failed: the turn is over, with the transcript
\* of its first pass and the error as the last message shown.
C20_Witness ==
    /\ pc = "idle"
    /\ outcome = "error"
    /\ requests = 2
    /\ toolPasses = 1
    /\ events = <<>>
    /\ pendingToolCalls = <<>>
    /\ Len(TurnEntries) >= 3
    /\ notices[Len(notices)] = "Error: No valid Copilot token. Please run login first."

\* A chat message submitted now would start a turn.
ChatAccepted == ENABLED (HandleSubmission /\ turns' = turns + 1)

\* C21: however a turn ends (final answer, empty pass, depth-limit abort,
\* raised error), isStreaming is false and a chat message submitted next is
\* accepted; the turn it starts appends the user message to the transcript the
\* ended turn left and counts its passes from 0, so its first pass is pass 1
\* of the turn and holds the turn's first request.
C21_NextTurnAfterEveryOutcome ==
    /\ [](TurnOver => ~isStreaming)
    /\ []((TurnOver /\ submissions < MaxSubmissions) => ChatAccepted)
    /\ [][(TurnOver /\ turns' = turns + 1) =>
             /\ \E rawValue \in Submissions :
                   chatHistory' = Append(chatHistory, UserMessage(Trim(rawValue)))
             /\ turnStart' = Len(chatHistory) + 1
             /\ isStreaming'
             /\ pc' = "request"
             /\ outcome' = "running"
             /\ safetyCounter' = 1
             /\ requests' = 1
             /\ toolPasses' = 0
             /\ accumulatedText' = ""
             /\ pendingToolCalls' = <<>>]_vars

\* A turn stopped at the depth limit, and the chat message submitted after it
\* started the next turn on the same transcript, at its first pass.
C21_Witness ==
    /\ turns = 2
    /\ isStreaming
    /\ pc = "request"
    /\ safetyCounter = 1
    /\ requests = 1
    /\ \E i \in 1..Len(notices) : notices[i] = DepthLimitNotice
    /\ turnStart = Len(chatHistory)
    /\ turnStart > 2 * maxToolPasses
    /\ chatHistory[1].role = "user"
    /\ chatHistory[turnStart].role = "user"

\* C22: at most one turn is in flight: a turn starts only while none is
\* streaming, and exactly while isStreaming is raised a turn is at one of its
\* steps. While isStreaming is raised every submission, chat message or slash
\* command, is rejected: it starts no turn, makes no request and leaves the
\* transcript and the turn's position as they are. During a turn the
\* transcript is only appended to.
C22_OneTurnInFlight ==
    /\ [](isStreaming <=> pc # "idle")
    /\ [][turns' # turns => (~isStreaming /\ turns' = turns + 1 /\ isStreaming')]_vars
    /\ [][(isStreaming /\ submissions' # submissions) =>
             /\ chatHistory' = chatHistory
             /\ turns' = turns
             /\ turnStart' = turnStart
             /\ requests' = requests
             /\ isStreaming'
             /\ pc' = pc
             /\ safetyCounter' = safetyCounter
             /\ events' = events
             /\ pendingToolCalls' = pendingToolCalls
             /\ accumulatedText' = accumulatedText]_vars
    /\ [][isStreaming => IsPrefix(chatHistory, chatHistory')]_vars

\* A submission was rejected while the turn resolves the tool calls of a pass:
\* the transcript holds the user message, the tool-call message and a result,
\* and the turn goes on.
C22_Witness ==
    /\ isStreaming
    /\ pc = "describing"
    /\ toolIdx >= 1
    /\ turns = 1
    /\ notices[Len(notices)] = HoldOnNotice
    /\ Len(chatHistory) >= 3

-----------------------------------------------------------------------------
(* Claims about login, checked under SpecLogin *)

\* How many of the answers of poll were `pending`.
PendingAnswers == Cardinality({i \in 1 .. Len(answers) : answers[i] = "pending"})

\* login is over: it returned or called process.exit.
LoginOver == loginPc = "exited"

\* C23: the polling loop of login calls poll at most 120 times; it sleeps
\* before every poll, each time for the interval of the session, which never
\* changes; and once poll returned a status other than pending it is not
\* called again.
C23_PollingLoopBounded ==
    /\ [](pollCalls <= maxAttempts)
    /\ [](loginPc = "poll" => sleeps = pollCalls + 1)
    /\ [](loginPc # "poll" => sleeps = pollCalls)
    /\ [](deviceInfo # Undefined => slept = sleeps * deviceInfo.interval * 1000)
    /\ [][pollCalls' # pollCalls =>
             /\ pollCalls' = pollCalls + 1
             /\ loginPc = "poll"
             /\ sleeps = pollCalls + 1
             /\ \A i \in 1 .. Len(answers) : answers[i] = "pending"]_vars
    /\ [][sleeps' # sleeps =>
             /\ sleeps' = sleeps + 1
             /\ slept' = slept + deviceInfo.interval * 1000
             /\ pollCalls' = pollCalls]_vars
    /\ [][deviceInfo # Undefined => deviceInfo' = deviceInfo]_vars
    /\ []((status # "" /\ status # "pending") => LoginOver)

\* poll answered pending 120 times, each after a sleep of the session's 5
\* seconds: the budget is spent and login is over.
C23_Witness ==
    /\ LoginOver
    /\ pollCalls = maxAttempts
    /\ sleeps = maxAttempts
    /\ PendingAnswers = maxAttempts
    /\ deviceInfo.interval = 5
    /\ slept = 600000

\* login reported success.
LoginSucceeded == LoginOver /\ loginLog = SuccessLine /\ exitCode = 0

\* login reported failure and left with code 1.
LoginFailed == LoginOver /\ loginLog \in {FailedLine, LoginFailedLine} /\ exitCode = 1

\* C24: when poll answers pending k times and then complete, with
\* k + 1 <= 120, login succeeds after exactly k + 1 polls and after sleeping
\* at least k times the interval: the poll that answers complete ends login
\* with success at once, and a login that succeeded made one poll more than
\* it got pending answers and slept k + 1 intervals.
C24_SucceedsAfterPendings ==
    /\ [][(pollCalls' = pollCalls + 1 /\ Len(answers') = Len(answers) + 1
             /\ answers'[Len(answers')] = "complete") =>
             /\ PendingAnswers = pollCalls
             /\ pollCalls + 1 <= maxAttempts
             /\ LoginSucceeded']_vars
    /\ [](LoginSucceeded =>
             /\ pollCalls = PendingAnswers + 1
             /\ pollCalls <= maxAttempts
             /\ answers[pollCalls] = "complete"
             /\ slept >= PendingAnswers * deviceInfo.interval * 1000
             /\ slept = pollCalls * deviceInfo.interval * 1000)

\* The session dictates 5 seconds and poll answers pending three times, then
\* complete: login succeeded with 4 polls, after 20 seconds of sleep.
C24_Witness ==
    /\ LoginSucceeded
    /\ deviceInfo.interval = 5
    /\ answers = <<"pending", "pending", "pending", "complete">>
    /\ pollCalls = 4
    /\ slept = 20000
    /\ slept >= 15000

\* C25: login reports success exactly when a poll returned complete. A poll
\* that returns another status that is not pending, a call that raises, and 120
\* pending answers each end login with a failure and exit code 1.
C25_SuccessIffComplete ==
    /\ [](LoginOver => (LoginSucceeded <=> \E i \in 1 .. Len(answers) : answers[i] = "complete"))
    /\ [](LoginOver => (LoginSucceeded \/ LoginFailed))
    /\ [](LoginOver => ~(LoginSucceeded /\ LoginFailed))
    /\ []((\E i \in 1 .. Len(answers) : answers[i] \notin {"pending", "complete"}) => LoginFailed)
    /\ [](raised # "none" => LoginFailed)
    /\ [](PendingAnswers = maxAttempts => LoginFailed)
    /\ []((\E i \in 1 .. Len(answers) : answers[i] = "complete") => LoginSucceeded)

\* The budget of 120 polls is spent on pending answers: login failed.
C25_Witness ==
    /\ LoginFailed
    /\ loginLog = FailedLine
    /\ PendingAnswers = maxAttempts
    /\ pollCalls = maxAttempts
    /\ raised = "none"

\* C26: a login that fails leaves the credential store as it found it: a
\* credential stored before the login is the one Auth.get returns after it.
C26_FailedLoginKeepsStore ==
    [](LoginFailed =>
          /\ authFile = fileBefore
          /\ AuthGet(authFile, Provider) = AuthGet(fileBefore, Provider))

\* A credential was stored, poll answered pending, then error: login failed
\* and Auth.get returns the stored credential.
C26_Witness ==
    /\ LoginFailed
    /\ Len(answers) >= 2
    /\ answers[Len(answers)] = "error"
    /\ fileBefore = <<<<Provider, OldCredential>>>>
    /\ AuthGet(authFile, Provider) = OldCredential

\* C27: login calls authorize exactly once. When authorize raises, login fails
\* without calling it again and without polling or sleeping.
C27_AuthorizeOnce ==
    /\ [](authorizeCalls <= 1)
    /\ [](loginPc # "start" => authorizeCalls = 1)
    /\ [](raised = "authorize" =>
             /\ LoginFailed
             /\ authorizeCalls = 1
             /\ pollCalls = 0
             /\ sleeps = 0)
    /\ [][raised = "authorize" =>
             authorizeCalls' = authorizeCalls /\ pollCalls' = pollCalls]_vars

\* authorize raised: login failed after that one call, with no poll made.
C27_Witness ==
    /\ raised = "authorize"
    /\ LoginFailed
    /\ loginLog = LoginFailedLine
    /\ authorizeCalls = 1
    /\ pollCalls = 0
    /\ deviceInfo = Undefined

-----------------------------------------------------------------------------
(* Claims about the REPL and the chat command, checked under SpecLegacy *)

\* The slots of the calls a list of fragments belongs to.
SlotsOf(fragments) == {fragments[i].index : i \in 1 .. Len(fragments)}

\* The arguments text of slot `slot`: what its fragments carry, in order.
RECURSIVE ArgumentsOfSlot(_, _)
ArgumentsOfSlot(fragments, slot) ==
    IF fragments = <<>> THEN ""
    ELSE (IF Head(fragments).index = slot
          THEN Or(Head(fragments).arguments, Str("")).v
          ELSE "")
         \o ArgumentsOfSlot(Tail(fragments), slot)

\* The REPL has read the first response of a question, which carried tool calls.
ReplPassHadToolCalls ==
    /\ cliCommand = "repl"
    /\ cliPc \in {"second", "prompt"}
    /\ Len(cliToolCalls) > 0
    /\ ~transportFailed

\* C28: the REPL merges the fragments of a tool call that arrive in several
\* events into one call before it runs the calls: the tool loop runs over as
\* many calls as distinct calls were streamed and gets through all of them,
\* each with the whole arguments text of its slot.
C28_ReplMergesFragments ==
    ReplPassHadToolCalls =>
        /\ Len(cliToolCalls) = Cardinality(SlotsOf(cliToolCalls))
        /\ handled = Cardinality(SlotsOf(cliToolCalls))
        /\ \A i \in 1 .. Len(cliToolCalls) :
               cliToolCalls[i].arguments
                   = Str(ArgumentsOfSlot(cliToolCalls, cliToolCalls[i].index))

\* A tool call of the question is a read_file call whose arguments JSON.parse
\* does not take.
HasInvalidArguments ==
    \E i \in 1 .. Len(cliToolCalls) :
        /\ cliToolCalls[i].name = Str("read_file")
        /\ ParsePath(cliToolCalls[i].arguments).raised

\* The tool loop of the question is over, one way or another.
ToolLoopOver == cliPc \in {"second", "prompt", "exited"} /\ Len(cliToolCalls) > 0

\* C29: in the REPL and in the chat command a read_file call with arguments
\* that are not JSON is recovered from: the tool loop gets through the calls
\* after it, the second request is made, and the question does not end with
\* 'Chat failed:' (no request having failed).
C29_InvalidArgumentsRecovered ==
    (ToolLoopOver /\ HasInvalidArguments /\ ~transportFailed) =>
        /\ handled = Len(cliToolCalls)
        /\ cliRequests = 2
        /\ ~chatFailed
        /\ printed # ChatFailedLine

\* replHistory[j] is an assistant message whose tool_calls holds the call `id`.
CarriesToolCall(j, id) ==
    /\ replHistory[j].role = "assistant"
    /\ "tool_calls" \in DOMAIN replHistory[j]
    /\ \E c \in 1 .. Len(replHistory[j].tool_calls) : replHistory[j].tool_calls[c].id = id

\* C30: in the REPL every function message of the transcript comes after an
\* assistant message whose tool_calls holds the call the function message
\* answers.
C30_ToolCallsBeforeResults ==
    \A i \in 1 .. Len(replHistory) :
        replHistory[i].role = "function" =>
            \E j \in 1 .. (i - 1) : CarriesToolCall(j, replHistory[i].tool_call_id)

-----------------------------------------------------------------------------
(* A further claim about the accumulator, checked under SpecMerge *)

\* `tool-${index}`, the id a record at position k starts with when its first
\* fragment brings none.
Placeholder(k) == "tool-" \o ToString(k - 1)

\* C31: every record of the accumulator has a non-empty id at all times. A
\* record whose first fragment has no id starts with the placeholder of its
\* position; a record that holds its placeholder takes the first non-empty id
\* merged into it and keeps the placeholder until then. So the function message
\* resolveToolCalls appends for a record has a non-empty tool_call_id.
C31_IdNeverEmpty ==
    /\ [](\A k \in 1 .. Len(accA) :
             /\ accA[k].id # ""
             /\ FunctionMessage(accA[k]).tool_call_id = accA[k].id
             /\ FunctionMessage(accA[k]).tool_call_id # "")
    /\ [][\A k \in 1 .. Len(accA') :
             \A i \in StepFragments(k) :
                 /\ (k > Len(accA) /\ ~Truthy(frags[i].id))
                        => accA'[k].id = Placeholder(k)
                 /\ Truthy(frags[i].id) => accA'[k].id = frags[i].id.v
                 /\ (k <= Len(accA) /\ ~Truthy(frags[i].id))
                        => accA'[k].id = accA[k].id]_vars

\* The first fragment merged into a record had no id, so the record held its
\* placeholder; a later fragment brought an id, which the record has now.
C31_Witness ==
    \E i, j \in 1 .. ia :
        /\ i < j
        /\ j = ia
        /\ recA[i] = recA[j]
        /\ \A h \in 1 .. (i - 1) : recA[h] # recA[i]
        /\ \A h \in i .. (j - 1) : recA[h] = recA[i] => ~Truthy(frags[h].id)
        /\ Truthy(frags[j].id)
        /\ accA[recA[j]].id = frags[j].id.v
        /\ accA[recA[j]].id # Placeholder(recA[j])

-----------------------------------------------------------------------------
(* A claim about the command assistant, checked under SpecAssist *)

\* The run has a proposal, and its command is not empty.
HasProposal == proposal # Null /\ proposal.command # ""

\* The answer, as entered, starts with "y" or "Y".
AnswerSaysYes(value) == StartsWith(value, "y") \/ StartsWith(value, "Y")

\* C32 as stated: a command is spawned only with a proposal whose command is
\* not empty and after an answer that starts with "y" or "Y"; with any other
\* answer, or without a proposal, none is spawned; and a run spawns at most
\* one command.
C32_SpawnOnlyOnApprovalAsClaimed ==
    /\ [](Len(spawned) <= 1)
    /\ [](spawned # <<>> =>
             /\ HasProposal
             /\ spawned = <<proposal.command>>
             /\ AnswerSaysYes(approvalAnswer))
    /\ []((assistPc = "exited" /\ (~HasProposal \/ ~AnswerSaysYes(approvalAnswer)))
             => spawned = <<>>)

\* C32, amended: a command is spawned only with a proposal whose command is
\* not empty and after an answer that, with the whitespace around it taken
\* off, starts with "y" or "Y"; with any other answer, the empty one too, or
\* without a proposal, none is spawned; and a run spawns at most one command,
\* the command of the proposal.
C32_SpawnOnlyOnApproval ==
    /\ [](Len(spawned) <= 1)
    /\ [](spawned # <<>> =>
             /\ HasProposal
             /\ spawned = <<proposal.command>>
             /\ AnswerSaysYes(Trim(approvalAnswer)))
    /\ []((assistPc = "exited" /\ (~HasProposal \/ ~AnswerSaysYes(Trim(approvalAnswer))))
             => spawned = <<>>)
    /\ [][spawned' # spawned =>
             /\ assistPc = "approval"
             /\ spawned = <<>>
             /\ HasProposal
             /\ spawned' = <<proposal.command>>]_vars

\* The user answered " y", with a space before the letter, and the command of
\* the proposal was spawned.
C32_Witness ==
    /\ assistPc = "running"
    /\ approvalAnswer = " y"
    /\ HasProposal
    /\ spawned = <<"du -sh .">>

-----------------------------------------------------------------------------
(* A claim about the credential store, checked under SpecStore *)

\* The calls of the log that name key k.
CallsOn(log, k) == {i \in 1 .. Len(log) : log[i].key = k}

\* What the calls of the log leave under key k: the record of the last call on
\* k if it is a set, nothing if it is a remove, and what the file held before
\* the first call if no call names k.
LeftBy(log, before, k) ==
    LET on == CallsOn(log, k) IN
    IF on = {} THEN AuthGet(before, k)
    ELSE LET last == log[Nth(on, Cardinality(on))] IN
         IF last.op = "set" THEN last.info ELSE Undefined

\* C33: after any sequence of Auth.set and Auth.remove calls, made one after
\* the other, Auth.get(k) returns the record of the most recent set(k, info)
\* that no remove(k) followed, and undefined when there is none; and a call on
\* one key leaves what Auth.get returns for every other key as it was.
C33_StoreGetAfterSetRemove ==
    /\ [](\A k \in StoreKeys : AuthGet(storeFile, k) = LeftBy(storeLog, storeBefore, k))
    /\ [][storeLog' # storeLog =>
             \A k \in StoreKeys :
                 k # storeLog'[Len(storeLog')].key
                     => AuthGet(storeFile', k) = AuthGet(storeFile, k)]_vars
    /\ [](\A i, j \in 1 .. Len(storeFile) : i # j => storeFile[i][1] # storeFile[j][1])

\* The provider's record was set over a stored one and then removed, after a
\* set of the other key: get returns nothing for the provider and the record
\* set for the other key.
C33_Witness ==
    /\ Len(storeLog) = 3
    /\ storeBefore = <<<<Provider, OldCredential>>>>
    /\ storeLog[1] = [op |-> "set", key |-> "openai", info |-> [type |-> "api", key |-> "k"]]
    /\ storeLog[2] = [op |-> "set", key |-> Provider, info |-> NewCredential]
    /\ storeLog[3].op = "remove"
    /\ storeLog[3].key = Provider
    /\ AuthGet(storeFile, Provider) = Undefined
    /\ AuthGet(storeFile, "openai") = [type |-> "api", key |-> "k"]

=============================================================================
